---- MODULE Spec2Model ----
(***************************************************************************)
(* Trading control plane of the CTB trading bot:                           *)
(*   RiskManager               (backend_new/services/risk_manager.py)      *)
(*   StrategyExecutionEngine   (backend_new/services/strategy_engine.py)   *)
(* Money is modelled in whole units; fractions of the source (0.15, 0.8,   *)
(* 0.95, ...) are modelled as percentages and compared by cross            *)
(* multiplication, so no rounding is introduced.                           *)
(***************************************************************************)
EXTENDS Integers, Sequences, FiniteSets, TLC

(***************************************************************************)
(* Bounds of the model                                                     *)
(***************************************************************************)
MaxAlerts == 2
MaxStops == 1
MaxQueue == 1
MaxTasks == 2
MaxIterations == 2
MaxLoops == 2

(***************************************************************************)
(* Input domains.  The operations take their input sets as parameters, so  *)
(* that each specification states the inputs it explores.                  *)
(***************************************************************************)
Symbols == {"BTCUSDT", "ETHUSDT"}
SymbolOrder == <<"BTCUSDT", "ETHUSDT">>
StrategyIds == {"s1", "s2"}
\* (size, entry_price, current_price, unrealized_pnl) of update_position_risk;
\* the last one has entry_price 0
PositionInputs == {<<1, 100, 100, 0>>, <<1, 0, 100, 0>>}
\* sum of realized_pnl over the OPEN positions of the database
RealEquities == {0, 8000, 10000}
\* total_pnl of today's trades; NULL (None) when the day has no trade
DailyInputs == {[is_none |-> TRUE, value |-> 0], [is_none |-> FALSE, value |-> 0]}
\* shape of the 30-day trading statistics returned by get_trading_stats
MonthlyKinds == {"db_error", "no_trades", "no_losses", "losses"}
\* (limit_name, value) arguments of set_global_limit
LimitUpdates == {<<"max_portfolio_drawdown", 25>>, <<"unknown_limit", 1>>}
\* limits argument of set_strategy_limits
StrategyLimitInputs == {[max_exposure |-> 100, max_risk_per_trade |-> 1]}
\* limits set for the ceiling checks, and a position and trades around them
LimitCeilings == {<<"max_total_exposure", 1000>>, <<"max_positions", 1>>}
ExposedPositions == {<<9, 100, 100, 0>>}
CeilingPrices == {50, 150}
\* arguments of validate_trade
Sides == {"BUY", "SELL"}
Quantities == {1}
Prices == {100}
Leverages == {1, 20}

(***************************************************************************)
(* RiskManager state                                                       *)
(***************************************************************************)
VARIABLES global_limits, strategy_limits, portfolio_metrics, position_risks,
          risk_alerts, emergency_stop_triggered, risk_stats, is_monitoring,
          last_validation

riskVars == <<global_limits, strategy_limits, portfolio_metrics, position_risks,
              risk_alerts, emergency_stop_triggered, risk_stats, is_monitoring,
              last_validation>>

(***************************************************************************)
(* StrategyExecutionEngine state                                           *)
(*   exec_pc     position of the _execution_loop task                      *)
(*   tick_tasks  the tasks created by _execute_strategies that have not    *)
(*               run yet, in creation order                                *)
(*   tick_active the strategies collected by the running tick              *)
(*   tick_log    the strategies the tick has processed so far, each with   *)
(*               whether its processing met a fault                        *)
(*   last_call   the call of the strategy API that has just returned       *)
(*   last_task   what the task run by the step just taken has done         *)
(*   signal_queue     the asyncio.Queue of executed signals                *)
(*   last_processed   what _process_signals did with the signal it took    *)
(*                    in the step just taken                               *)
(*   signal_task      whether a task running _process_signals is alive     *)
(*   tick_metrics     the RiskManager's portfolio_metrics at the moment    *)
(*                    the running tick created its tasks; the engine does  *)
(*                    not read it                                          *)
(***************************************************************************)
VARIABLES strategies, active_connections, is_running, global_risk_limits,
          exec_pc, tick_tasks, tick_active, tick_log, last_call, last_task,
          signal_queue, last_processed, signal_task, tick_metrics

engineVars == <<strategies, active_connections, is_running, global_risk_limits,
                exec_pc, tick_tasks, tick_active, tick_log, last_call, last_task,
                signal_queue, last_processed, signal_task, tick_metrics>>

(***************************************************************************)
(* PositionSyncService state                                               *)
(*   sync_connections    keys of PositionSyncService.active_connections    *)
(*   current_positions   connection id -> the list of positions cached     *)
(*   sync_is_running     PositionSyncService.is_running                    *)
(*   sync_tasks          the coroutines of the service that are suspended  *)
(*                       in an await, each with the cycle it is running    *)
(*   positions_db        the positions table: id -> status                 *)
(*   last_cycle          the reconciliation cycle that ended in the step   *)
(*                       just taken: what it fetched, detected and wrote   *)
(*   last_close          what the close_position call of the step just     *)
(*                       taken submitted                                   *)
(* The statistics counters of the service are not part of the model.       *)
(***************************************************************************)
VARIABLES sync_connections, current_positions, sync_is_running, sync_tasks,
          positions_db, last_cycle, last_close

syncVars == <<sync_connections, current_positions, sync_is_running, sync_tasks,
              positions_db, last_cycle, last_close>>

(***************************************************************************)
(* The four periodic loops: _execution_loop and _monitoring_loop of the    *)
(* engine, _monitoring_loop of the RiskManager and _sync_loop              *)
(*   loop_iterations  how many iterations the loop has begun               *)
(*   loop_fault       whether the body of its last iteration raised        *)
(*   sync_loops       how many tasks running _sync_loop are alive          *)
(***************************************************************************)
VARIABLES loop_iterations, loop_fault, sync_loops

loopVars == <<loop_iterations, loop_fault, sync_loops>>

vars == <<riskVars, engineVars, syncVars, loopVars>>

NoMetrics == [none |-> TRUE]
\* last_validation holds the value returned by the validate_trade call that has
\* just completed; any other operation clears it
NoValidation == [none |-> TRUE]
EmptyDict == [k \in {} |-> 0]

DictPut(d, k, v) == [x \in (DOMAIN d) \cup {k} |-> IF x = k THEN v ELSE d[x]]
DictDel(d, k) == [x \in (DOMAIN d) \ {k} |-> d[x]]

Abs(x) == IF x < 0 THEN -x ELSE x

\* num/den > pct/100 for den # 0, as Python's float comparison orders it
RatioExceeds(num, den, pctNum, pctDen) ==
    IF den > 0 THEN num * pctDen > pctNum * den
               ELSE num * pctDen < pctNum * den

RECURSIVE SumOver(_, _)
SumOver(S, f) ==
    IF S = {} THEN 0
    ELSE LET x == CHOOSE y \in S : TRUE IN f[x] + SumOver(S \ {x}, f)

(***************************************************************************)
(* Violation messages of validate_trade (interpolated numbers left out)    *)
(***************************************************************************)
MsgLeverage == "Leverage overschrijdt limiet"
MsgBalance == "Account balance onder minimum"
MsgExposure == "Total exposure zou limiet overschrijden"
MsgDailyLoss == "Daily loss limit bereikt"
MsgMaxPositions == "Maximum aantal posities bereikt"
MsgStrategyExposure == "Strategy exposure limiet overschreden"
MsgStrategyRisk == "Strategy risk per trade limiet overschreden"
MsgSinglePosition == "Single position limit overschreden"
MsgDrawdown == "Portfolio drawdown limit overschreden"
MsgPositionRisk == "Position risk te hoog na trade"
MsgCorrelation == "Te veel gecorreleerde crypto posities"
MsgEmergencyStop == "Emergency stop is active - geen nieuwe trades toegestaan"
MsgErrGlobal == "Error checking global limits"
MsgErrStrategy == "Error checking strategy limits"
MsgErrPortfolio == "Error checking portfolio limits"
MsgErrPosition == "Error checking position limits"

HasMetrics(pm) == pm # NoMetrics

\* current_drawdown > pct% of the max_portfolio_drawdown limit (a percentage)
DrawdownExceeds(pm, limitPct, pct) ==
    pm.dd_num * 100 * 100 > pct * limitPct * pm.dd_den

IsCrypto(sym) == sym \in {"BTCUSDT", "ETHUSDT"}


(***************************************************************************)
(* validate_trade and its checks; each returns a list of violations        *)
(***************************************************************************)
check_global_trade_limits(gl, pm, pr, trade_value, leverage) ==
    \* None < number raises TypeError inside the try block
    IF HasMetrics(pm) /\ pm.daily_pnl_none THEN <<MsgErrGlobal>> ELSE
    (IF leverage > gl.max_leverage_global THEN <<MsgLeverage>> ELSE <<>>)
    \o (IF HasMetrics(pm) /\ pm.total_equity < gl.min_account_balance
        THEN <<MsgBalance>> ELSE <<>>)
    \o (IF HasMetrics(pm) /\ pm.total_exposure + trade_value > gl.max_total_exposure
        THEN <<MsgExposure>> ELSE <<>>)
    \o (IF HasMetrics(pm) /\ pm.daily_pnl < -gl.max_daily_loss
        THEN <<MsgDailyLoss>> ELSE <<>>)
    \o (IF Cardinality(DOMAIN pr) >= gl.max_positions
        THEN <<MsgMaxPositions>> ELSE <<>>)

check_strategy_trade_limits(sl, pm, strategy_id, trade_value) ==
    IF strategy_id \notin DOMAIN sl THEN <<>>
    ELSE LET limits == sl[strategy_id]
             expo == IF "max_exposure" \in DOMAIN limits /\ trade_value > limits.max_exposure
                     THEN <<MsgStrategyExposure>> ELSE <<>>
         IN IF "max_risk_per_trade" \in DOMAIN limits /\ HasMetrics(pm)
            THEN IF pm.total_equity = 0
                 THEN <<MsgErrStrategy>>
                 ELSE expo \o (IF RatioExceeds(trade_value * 2, pm.total_equity * 100,
                                                limits.max_risk_per_trade, 100)
                               THEN <<MsgStrategyRisk>> ELSE <<>>)
            ELSE expo

check_portfolio_trade_limits(gl, pm, trade_value) ==
    IF ~HasMetrics(pm) THEN <<>>
    ELSE IF pm.total_equity = 0 THEN <<MsgErrPortfolio>>
    ELSE (IF RatioExceeds(trade_value, pm.total_equity, gl.max_single_position, 100)
          THEN <<MsgSinglePosition>> ELSE <<>>)
         \o (IF DrawdownExceeds(pm, gl.max_portfolio_drawdown, 100)
             THEN <<MsgDrawdown>> ELSE <<>>)

check_position_trade_limits(gl, pm, pr, symbol, side, quantity, price) ==
    IF symbol \in DOMAIN pr /\ HasMetrics(pm)
    THEN LET new_size == pr[symbol].size + (IF side = "BUY" THEN quantity ELSE -quantity)
             position_value == Abs(new_size * price)
         IN IF pm.total_equity = 0 THEN <<MsgErrPosition>>
            ELSE IF RatioExceeds(position_value, pm.total_equity, gl.max_single_position, 100)
                 THEN <<MsgPositionRisk>> ELSE <<>>
    ELSE <<>>

check_correlation_limits(pr) ==
    IF Cardinality(DOMAIN pr) > 5
       /\ Cardinality({s \in DOMAIN pr : IsCrypto(s)}) > 10
    THEN <<MsgCorrelation>> ELSE <<>>

\* mutant: the emergency stop is not consulted by the validation
check_emergency_stop_skipped(stop) == <<>>

check_emergency_stop(stop) ==
    IF stop THEN <<MsgEmergencyStop>> ELSE <<>>

\* mutant: the message of a check that raised does not count as a violation
is_valid_ignores_errors(violations) ==
    \A i \in DOMAIN violations :
        violations[i] \in {MsgErrGlobal, MsgErrStrategy, MsgErrPortfolio, MsgErrPosition}

\* is_valid = len(violations) == 0
is_valid(violations) == Len(violations) = 0

\* (is_valid, violations), together with the trade value the call computed
validate_trade(gl, sl, pm, pr, stop, strategy_id, symbol, side, quantity, price, leverage) ==
    LET trade_value == quantity * price * leverage
        violations ==
            check_global_trade_limits(gl, pm, pr, trade_value, leverage)
            \o check_strategy_trade_limits(sl, pm, strategy_id, trade_value)
            \o check_portfolio_trade_limits(gl, pm, trade_value)
            \o check_position_trade_limits(gl, pm, pr, symbol, side, quantity, price)
            \o check_correlation_limits(pr)
            \o check_emergency_stop(stop)
    IN [accepted |-> is_valid(violations), violations |-> violations,
        trade_value |-> trade_value]

(***************************************************************************)
(* Alerts, emergency stop and the checks of one monitoring cycle.  The     *)
(* alert state a check works on is a record                                *)
(*   [alerts, stop, stops]                                                 *)
(* of risk_alerts, emergency_stop_triggered, risk_stats['emergency_stops'].*)
(***************************************************************************)
Alert(type, level, symbol) ==
    [alert_type |-> type, level |-> level, symbol |-> symbol]

add_risk_alert(st, alert) ==
    [st EXCEPT !.alerts = Append(@, alert)]

\* mutant: the alert is raised before the "already triggered" return
trigger_emergency_stop_realerts(st) ==
    add_risk_alert(IF st.stop THEN st ELSE [st EXCEPT !.stop = TRUE, !.stops = @ + 1],
                   Alert("EMERGENCY_STOP", "CRITICAL", ""))

trigger_emergency_stop(st) ==
    IF st.stop THEN st
    ELSE add_risk_alert([st EXCEPT !.stop = TRUE, !.stops = @ + 1],
                        Alert("EMERGENCY_STOP", "CRITICAL", ""))

\* mutant: the stop follows the condition and clears when the drawdown recovers
check_drawdown_risk_autoclear(st, gl, pm) ==
    IF ~HasMetrics(pm) THEN st
    ELSE IF DrawdownExceeds(pm, gl.max_portfolio_drawdown, 100)
    THEN trigger_emergency_stop(add_risk_alert(st, Alert("DRAWDOWN", "HIGH", "")))
    ELSE [st EXCEPT !.stop = FALSE]

\* mutant: the stop is triggered only at twice the limit
check_drawdown_risk_late(st, gl, pm) ==
    IF ~HasMetrics(pm) THEN st
    ELSE IF DrawdownExceeds(pm, gl.max_portfolio_drawdown, 80)
    THEN LET st1 == add_risk_alert(st, Alert("DRAWDOWN", "HIGH", ""))
         IN IF DrawdownExceeds(pm, gl.max_portfolio_drawdown, 200)
            THEN trigger_emergency_stop(st1) ELSE st1
    ELSE st

check_drawdown_risk(st, gl, pm) ==
    IF ~HasMetrics(pm) THEN st
    ELSE IF DrawdownExceeds(pm, gl.max_portfolio_drawdown, 80)
    THEN LET level == IF DrawdownExceeds(pm, gl.max_portfolio_drawdown, 95)
                      THEN "HIGH" ELSE "MEDIUM"
             st1 == add_risk_alert(st, Alert("DRAWDOWN", level, ""))
         IN IF DrawdownExceeds(pm, gl.max_portfolio_drawdown, 100)
            THEN trigger_emergency_stop(st1) ELSE st1
    ELSE st

\* mutant: the alert is raised only above 95% of the limit
check_exposure_risk_from_95(st, gl, pm) ==
    IF ~HasMetrics(pm) THEN st
    ELSE IF pm.total_exposure * 100 > gl.max_total_exposure * 95
    THEN add_risk_alert(st, Alert("EXPOSURE", "HIGH", ""))
    ELSE st

check_exposure_risk(st, gl, pm) ==
    IF ~HasMetrics(pm) THEN st
    ELSE IF pm.total_exposure * 100 > gl.max_total_exposure * 80
    THEN add_risk_alert(st, Alert("EXPOSURE",
                                  IF pm.total_exposure * 100 > gl.max_total_exposure * 95
                                  THEN "HIGH" ELSE "MEDIUM", ""))
    ELSE st

RECURSIVE check_position_risks_from(_, _, _, _, _)
check_position_risks_from(i, st, gl, pm, pr) ==
    IF i > Len(SymbolOrder) THEN st
    ELSE LET symbol == SymbolOrder[i]
             position_value == Abs(pr[symbol].size * pr[symbol].current_price)
             st1 == IF symbol \in DOMAIN pr
                       /\ RatioExceeds(position_value * 100, pm.total_equity,
                                       gl.max_single_position * 80, 100)
                    THEN add_risk_alert(st, Alert("POSITION_SIZE",
                             IF RatioExceeds(position_value * 100, pm.total_equity,
                                             gl.max_single_position * 95, 100)
                             THEN "HIGH" ELSE "MEDIUM", symbol))
                    ELSE st
         IN check_position_risks_from(i + 1, st1, gl, pm, pr)

\* raises ZeroDivisionError at the first position when total_equity is 0
position_risks_raise(pm, pr) ==
    HasMetrics(pm) /\ DOMAIN pr # {} /\ pm.total_equity = 0

check_position_risks(st, gl, pm, pr) ==
    IF ~HasMetrics(pm) THEN st ELSE check_position_risks_from(1, st, gl, pm, pr)

check_correlation_risk(st, pr) ==
    IF Cardinality(DOMAIN pr) > 5
       /\ Cardinality({s \in DOMAIN pr : IsCrypto(s)}) * 10 > Cardinality(DOMAIN pr) * 8
    THEN add_risk_alert(st, Alert("CORRELATION", "MEDIUM", ""))
    ELSE st

\* min(|current - entry| / entry, 0.1) > volatility_threshold (a percentage)
HighVolatility(gl, p) ==
    /\ Abs(p.current_price - p.entry_price) * 100 > gl.volatility_threshold * p.entry_price
    /\ 10 > gl.volatility_threshold

check_volatility_risk(st, gl, pr) ==
    IF Cardinality({s \in DOMAIN pr : HighVolatility(gl, pr[s])}) * 2 > Cardinality(DOMAIN pr)
    THEN add_risk_alert(st, Alert("VOLATILITY", "MEDIUM", ""))
    ELSE st

check_all_risks(st, gl, pm, pr) ==
    LET st1 == check_exposure_risk(check_drawdown_risk(st, gl, pm), gl, pm)
    IN IF position_risks_raise(pm, pr) THEN st1
       ELSE check_volatility_risk(
                check_correlation_risk(check_position_risks(st1, gl, pm, pr), pr), gl, pr)

\* drops the alerts older than 24 hours: the list is in order of time, so these
\* are its first n_old entries (an input: how many have aged by now)
cleanup_old_alerts(alerts, n_old) == SubSeq(alerts, n_old + 1, Len(alerts))


(***************************************************************************)
(* _update_portfolio_metrics                                               *)
(***************************************************************************)
TotalUnrealizedPnl(pr) == SumOver(DOMAIN pr, [s \in DOMAIN pr |-> pr[s].unrealized_pnl])
TotalExposure(pr) ==
    SumOver(DOMAIN pr, [s \in DOMAIN pr |-> Abs(pr[s].size * pr[s].current_price)])

Max(a, b) == IF a >= b THEN a ELSE b

\* max_equity: the larger of the new equity and the previous snapshot's equity
max_equity(pm, total_equity) ==
    Max(total_equity, IF HasMetrics(pm) THEN pm.total_equity ELSE total_equity)

\* TypeError on NULL max_loss (no trade) or NULL avg_loss (no losing trade)
update_metrics_raises(monthly) == monthly \in {"no_trades", "no_losses"}

update_portfolio_metrics(pm, pr, real_equity, daily, monthly) ==
    IF update_metrics_raises(monthly) THEN pm
    ELSE LET total_equity == real_equity + TotalUnrealizedPnl(pr)
             maxeq == max_equity(pm, total_equity)
         IN [total_equity |-> total_equity,
             total_exposure |-> TotalExposure(pr),
             daily_pnl |-> daily.value,
             daily_pnl_none |-> daily.is_none,
             dd_num |-> IF maxeq > 0 THEN maxeq - total_equity ELSE 0,
             dd_den |-> IF maxeq > 0 THEN maxeq ELSE 1,
             active_positions |-> Cardinality(DOMAIN pr)]

(***************************************************************************)
(* RiskManager operations                                                  *)
(***************************************************************************)
RiskInit ==
    /\ global_limits = [max_total_exposure |-> 50000,
                        max_daily_loss |-> 2000,
                        max_portfolio_drawdown |-> 15,
                        max_single_position |-> 10,
                        min_account_balance |-> 1000,
                        max_leverage_global |-> 10,
                        max_positions |-> 20,
                        volatility_threshold |-> 5]
    /\ strategy_limits = EmptyDict
    /\ portfolio_metrics = NoMetrics
    /\ position_risks = EmptyDict
    /\ risk_alerts = <<>>
    /\ emergency_stop_triggered = FALSE
    /\ risk_stats = [emergency_stops |-> 0]
    /\ is_monitoring = FALSE
    /\ last_validation = NoValidation

set_global_limit(gl, limit_name, value) ==
    IF limit_name \in DOMAIN gl THEN [gl EXCEPT ![limit_name] = value] ELSE gl

SetGlobalLimit(Updates) ==
    \E u \in Updates :
        /\ global_limits' = set_global_limit(global_limits, u[1], u[2])
        /\ last_validation' = NoValidation
        /\ UNCHANGED <<strategy_limits, portfolio_metrics, position_risks, risk_alerts,
                       emergency_stop_triggered, risk_stats, is_monitoring>>
        /\ UNCHANGED <<engineVars, syncVars, loopVars>>

SetStrategyLimits(Ids, Limits) ==
    \E sid \in Ids, limits \in Limits :
        /\ strategy_limits' = DictPut(strategy_limits, sid, limits)
        /\ last_validation' = NoValidation
        /\ UNCHANGED <<global_limits, portfolio_metrics, position_risks, risk_alerts,
                       emergency_stop_triggered, risk_stats, is_monitoring>>
        /\ UNCHANGED <<engineVars, syncVars, loopVars>>

StartMonitoring ==
    /\ is_monitoring' = TRUE
    /\ last_validation' = NoValidation
    /\ UNCHANGED <<global_limits, strategy_limits, portfolio_metrics, position_risks,
                   risk_alerts, emergency_stop_triggered, risk_stats>>
    /\ UNCHANGED <<engineVars, syncVars, loopVars>>

StopMonitoring ==
    /\ is_monitoring' = FALSE
    /\ last_validation' = NoValidation
    /\ UNCHANGED <<global_limits, strategy_limits, portfolio_metrics, position_risks,
                   risk_alerts, emergency_stop_triggered, risk_stats>>
    /\ UNCHANGED <<engineVars, syncVars, loopVars>>

AlertState ==
    [alerts |-> risk_alerts, stop |-> emergency_stop_triggered,
     stops |-> risk_stats.emergency_stops]

\* one iteration of _monitoring_loop: metrics, checks, cleanup
monitoring_cycle(st, gl, pm, pr, n_old) ==
    LET st1 == check_all_risks(st, gl, pm, pr)
    IN [st1 EXCEPT !.alerts = cleanup_old_alerts(@, n_old)]

MonitoringCycle(Equities, Dailies, Monthlies) ==
    /\ is_monitoring
    /\ risk_stats.emergency_stops <= MaxStops
    /\ \E real_equity \in Equities, daily \in Dailies, monthly \in Monthlies,
          n_old \in 0..Len(risk_alerts) :
        LET pm == update_portfolio_metrics(portfolio_metrics, position_risks,
                                           real_equity, daily, monthly)
            st == monitoring_cycle(AlertState, global_limits, pm, position_risks, n_old)
        IN /\ Len(st.alerts) <= MaxAlerts
           /\ portfolio_metrics' = pm
           /\ risk_alerts' = st.alerts
           /\ emergency_stop_triggered' = st.stop
           /\ risk_stats' = [risk_stats EXCEPT !.emergency_stops = st.stops]
    /\ last_validation' = NoValidation
    /\ UNCHANGED <<global_limits, strategy_limits, position_risks, is_monitoring>>
    /\ UNCHANGED <<engineVars, syncVars, loopVars>>

ValidateTrade(Ids, Syms, Sds, Qtys, Prcs, Levs) ==
    \E sid \in Ids, symbol \in Syms, side \in Sds,
       quantity \in Qtys, price \in Prcs, leverage \in Levs :
        /\ last_validation' = validate_trade(global_limits, strategy_limits,
                                  portfolio_metrics, position_risks,
                                  emergency_stop_triggered,
                                  sid, symbol, side, quantity, price, leverage)
        /\ UNCHANGED <<global_limits, strategy_limits, portfolio_metrics, position_risks,
                       risk_alerts, emergency_stop_triggered, risk_stats, is_monitoring>>
        /\ UNCHANGED <<engineVars, syncVars, loopVars>>

\* entry_price = 0 raises ZeroDivisionError, which the method swallows
update_position_risk(pr, symbol, p) ==
    IF p[2] = 0 THEN pr
    ELSE DictPut(pr, symbol, [size |-> p[1], entry_price |-> p[2],
                              current_price |-> p[3], unrealized_pnl |-> p[4]])

UpdatePositionRisk(Syms, Inputs) ==
    \E symbol \in Syms, p \in Inputs :
        /\ position_risks' = update_position_risk(position_risks, symbol, p)
        /\ last_validation' = NoValidation
        /\ UNCHANGED <<global_limits, strategy_limits, portfolio_metrics, risk_alerts,
                       emergency_stop_triggered, risk_stats, is_monitoring>>
        /\ UNCHANGED <<engineVars, syncVars, loopVars>>

RemovePositionRisk(Syms) ==
    \E symbol \in Syms :
        /\ position_risks' = DictDel(position_risks, symbol)
        /\ last_validation' = NoValidation
        /\ UNCHANGED <<global_limits, strategy_limits, portfolio_metrics, risk_alerts,
                       emergency_stop_triggered, risk_stats, is_monitoring>>
        /\ UNCHANGED <<engineVars, syncVars, loopVars>>

reset_emergency_stop(stop) == FALSE

ResetEmergencyStop ==
    /\ emergency_stop_triggered' = reset_emergency_stop(emergency_stop_triggered)
    /\ last_validation' = NoValidation
    /\ UNCHANGED <<global_limits, strategy_limits, portfolio_metrics, position_risks,
                   risk_alerts, risk_stats, is_monitoring>>
    /\ UNCHANGED <<engineVars, syncVars, loopVars>>

(***************************************************************************)
(* StrategyExecutionEngine: strategies, signals and the exchange           *)
(***************************************************************************)
StrategyStatus == {"INACTIVE", "ACTIVE", "PAUSED", "STOPPED", "ERROR"}

\* Strategy ids are creation timestamps, so the registry (a dict, iterated in
\* insertion order) is iterated in id order
StrategyOrder == <<"s1", "s2">>
ConnectionIds == {"c1"}
\* Strategy is a dataclass whose fields are not type checked: UnhashableId
\* stands for a connection_id that cannot be looked up in a dict (a list)
UnhashableId == "unhashable"
\* (connection_id, symbol, config['leverage']) of the strategies handed to
\* add_strategy
StrategyProfiles ==
    {[connection_id |-> "c1", symbol |-> "BTCUSDT", leverage |-> 5],
     [connection_id |-> "c1", symbol |-> "BTCUSDT", leverage |-> 20],
     [connection_id |-> UnhashableId, symbol |-> "BTCUSDT", leverage |-> 20]}
\* what a call of the exchange session does: return retCode 0, return
\* another retCode, or raise
ExchangeReplies == {"ok", "retcode", "raise"}
\* what get_kline and the strategy logic on its candles come to
Klines == {"raise", "retcode", "flat", "BUY", "SELL"}
\* unrealisedPnl of the USDT coin of a connection's wallet
WalletPnls == {0, -1500}

NoStrategy == [none |-> TRUE]
NoSignal == [none |-> TRUE]
NoOrder == [none |-> TRUE]
NoTask == [none |-> TRUE]
NoCall == [op |-> "none"]

\* config.get('position_size', 0.01), in units of 0.01
position_size == 1
\* Strategy.__post_init__: the default risk_limits and performance
risk_limits ==
    [max_position_size |-> 100000, max_leverage |-> 10, max_drawdown |-> 20]
performance == [current_drawdown |-> 0]

Strategy(profile, status) ==
    [status |-> status,
     connection_id |-> profile.connection_id,
     symbol |-> profile.symbol,
     leverage |-> profile.leverage]

Lookup(reg, id) == IF id \in DOMAIN reg THEN reg[id] ELSE NoStrategy

add_strategy(reg, id, strategy) == DictPut(reg, id, strategy)

remove_strategy(reg, id) == DictDel(reg, id)

set_status(reg, id, status) ==
    IF id \in DOMAIN reg THEN [reg EXCEPT ![id].status = status] ELSE reg

activate_strategy(reg, id) == set_status(reg, id, "ACTIVE")

pause_strategy(reg, id) == set_status(reg, id, "PAUSED")

\* for strategy in self.strategies.values(): strategy.status = STOPPED
stop_all(reg) == [id \in DOMAIN reg |-> [reg[id] EXCEPT !.status = "STOPPED"]]

\* a pending task keeps the Strategy object it was created with; once the
\* registry no longer holds that object under the id, the task is detached
Detach(tasks, id) ==
    [i \in DOMAIN tasks |->
        IF tasks[i].id = id THEN [tasks[i] EXCEPT !.attached = FALSE] ELSE tasks[i]]

\* a TradingSignal; orders counts the place_order calls issued for it
generate_signal(task, kline) ==
    IF kline \in {"raise", "retcode", "flat"} THEN NoSignal
    ELSE [symbol |-> task.symbol, signal_type |-> kline, quantity |-> position_size,
          leverage |-> task.leverage, orders |-> 0]

\* mutant: the engine's emergency-stop flag is not consulted
check_risk_limits_ignores_stop(signal, grl) ==
    IF signal.quantity > risk_limits.max_position_size THEN FALSE
    ELSE IF signal.leverage > risk_limits.max_leverage THEN FALSE
    ELSE IF performance.current_drawdown > risk_limits.max_drawdown THEN FALSE
    ELSE TRUE

check_risk_limits(signal, grl) ==
    IF signal.quantity > risk_limits.max_position_size THEN FALSE
    ELSE IF signal.leverage > risk_limits.max_leverage THEN FALSE
    ELSE IF performance.current_drawdown > risk_limits.max_drawdown THEN FALSE
    ELSE IF grl.emergency_stop_triggered THEN FALSE
    ELSE TRUE

check_market_conditions(signal) == TRUE

check_position_limits(signal) == TRUE

validate_signal(signal, grl) ==
    IF ~check_risk_limits(signal, grl) THEN FALSE
    ELSE IF ~check_market_conditions(signal) THEN FALSE
    ELSE IF ~check_position_limits(signal) THEN FALSE
    ELSE TRUE

Order(id, signal, result) ==
    [strategy_id |-> id, symbol |-> signal.symbol, side |-> signal.signal_type,
     result |-> result]

\* the signal once place_order has been called for it
submitted(signal) == [signal EXCEPT !.orders = @ + 1]

\* [success, order, fault, signal, effects]: order is the place_order call
\* made, if any; effects are the calls to the exchange, the database and the
\* signal queue in the order they are made
execute_trade(id, signal, leverage_reply, order_reply) ==
    LET lev == IF signal.leverage > 1 THEN <<"set_leverage">> ELSE <<>>
    IN IF signal.leverage > 1 /\ leverage_reply # "ok"
       THEN [success |-> FALSE, order |-> NoOrder, fault |-> "set_leverage",
             signal |-> signal, effects |-> lev]
       ELSE CASE order_reply = "ok" ->
                   [success |-> TRUE, order |-> Order(id, signal, "accepted"),
                    fault |-> "none", signal |-> submitted(signal),
                    effects |-> lev \o <<"place_order", "save_trade",
                                         "save_strategy", "queue_put">>]
              [] order_reply = "retcode" ->
                   [success |-> FALSE, order |-> Order(id, signal, "rejected"),
                    fault |-> "place_order", signal |-> submitted(signal),
                    effects |-> lev \o <<"place_order">>]
              [] OTHER ->
                   [success |-> FALSE, order |-> Order(id, signal, "raised"),
                    fault |-> "place_order", signal |-> submitted(signal),
                    effects |-> lev \o <<"place_order">>]

\* error: the outer handler of _execute_single_strategy has run;
\* fault: the step of the processing that failed, "none" when none did;
\* signal: the signal generated, if any; effects: see execute_trade
TaskResult(error, fault, approved, order, signal, effects) ==
    [error |-> error, fault |-> fault, approved |-> approved, order |-> order,
     signal |-> signal, effects |-> effects]

execute_single_strategy(task, conns, grl, kline, leverage_reply, order_reply) ==
    IF task.connection_id = UnhashableId
    THEN TaskResult(TRUE, "connection_lookup", FALSE, NoOrder, NoSignal, <<>>)
    ELSE IF task.connection_id \notin conns
    THEN TaskResult(FALSE, "none", FALSE, NoOrder, NoSignal, <<>>)
    ELSE LET signal == generate_signal(task, kline)
         IN IF signal = NoSignal
            THEN TaskResult(FALSE,
                            IF kline \in {"raise", "retcode"} THEN "candle_fetch"
                                                              ELSE "none",
                            FALSE, NoOrder, NoSignal, <<>>)
            ELSE IF ~validate_signal(signal, grl)
            THEN TaskResult(FALSE, "none", FALSE, NoOrder, signal, <<>>)
            ELSE LET r == execute_trade(task.id, signal, leverage_reply, order_reply)
                 IN TaskResult(FALSE, r.fault, TRUE, r.order, r.signal, r.effects)

\* self.signal_queue after the task: put is the last call of a successful
\* _execute_trade
queue_after(queue, result) ==
    IF "queue_put" \in {result.effects[i] : i \in DOMAIN result.effects}
    THEN Append(queue, result.signal) ELSE queue

\* mutant: the consumer of the queue submits the signal it takes
process_signal_resubmits(signal) ==
    [signal |-> submitted(signal), effects |-> <<"place_order">>]

\* the body of the loop of _process_signals: the signal is logged
process_signal(signal) == [signal |-> signal, effects |-> <<>>]

\* mutant: a fault of one task ends the tick for the tasks after it
remaining_tasks_abort(tasks, result) ==
    IF result.fault # "none" THEN <<>> ELSE Tail(tasks)

\* the tasks still to run once a task has finished: gather(return_exceptions)
\* over tasks that each handle their own faults
remaining_tasks(tasks, result) == Tail(tasks)

\* total_pnl of _check_global_risk over the wallets of the connections
total_pnl(conns, wallet) == SumOver(conns, wallet)

check_global_risk(reg, grl, pnl) ==
    IF pnl < -grl.max_daily_loss
    THEN [strategies |-> stop_all(reg),
          global_risk_limits |-> [grl EXCEPT !.emergency_stop_triggered = TRUE]]
    ELSE [strategies |-> reg, global_risk_limits |-> grl]

(***************************************************************************)
(* StrategyExecutionEngine operations                                      *)
(***************************************************************************)
EngineInit ==
    /\ strategies = EmptyDict
    /\ active_connections = {}
    /\ is_running = FALSE
    /\ global_risk_limits = [max_daily_loss |-> 1000,
                             emergency_stop_triggered |-> FALSE]
    /\ exec_pc = "stopped"
    /\ tick_tasks = <<>>
    /\ tick_active = {}
    /\ tick_log = EmptyDict
    /\ last_call = NoCall
    /\ last_task = NoTask
    /\ signal_queue = <<>>
    /\ last_processed = NoSignal
    /\ signal_task = FALSE
    /\ tick_metrics = NoMetrics

Call(op, id, ok, before) == [op |-> op, id |-> id, ok |-> ok, before |-> before]

\* create_strategy -> add_strategy: the registry entry is written whether or
\* not the id is already there, and True is returned
AddStrategy(Ids, Profiles) ==
    \E id \in Ids, profile \in Profiles :
        /\ strategies' = add_strategy(strategies, id, Strategy(profile, "INACTIVE"))
        /\ tick_tasks' = Detach(tick_tasks, id)
        /\ last_call' = Call("add_strategy", id, TRUE, Lookup(strategies, id))
        /\ last_task' = NoTask
        /\ UNCHANGED <<active_connections, is_running, global_risk_limits, exec_pc,
                       tick_active, tick_log>>
        /\ last_processed' = NoSignal
        /\ UNCHANGED <<signal_queue, signal_task, tick_metrics>>
        /\ last_processed' = NoSignal
    /\ UNCHANGED <<signal_queue, signal_task, tick_metrics>>
    /\ UNCHANGED <<riskVars, syncVars, loopVars>>

RemoveStrategy(Ids) ==
    \E id \in Ids :
        /\ strategies' = remove_strategy(strategies, id)
        /\ tick_tasks' = Detach(tick_tasks, id)
        /\ last_call' = Call("remove_strategy", id, id \in DOMAIN strategies,
                             Lookup(strategies, id))
        /\ last_task' = NoTask
        /\ UNCHANGED <<active_connections, is_running, global_risk_limits, exec_pc,
                       tick_active, tick_log>>
        /\ last_processed' = NoSignal
        /\ UNCHANGED <<signal_queue, signal_task, tick_metrics>>
        /\ last_processed' = NoSignal
    /\ UNCHANGED <<signal_queue, signal_task, tick_metrics>>
    /\ UNCHANGED <<riskVars, syncVars, loopVars>>

ActivateStrategy(Ids) ==
    \E id \in Ids :
        /\ strategies' = activate_strategy(strategies, id)
        /\ last_call' = Call("activate_strategy", id, id \in DOMAIN strategies,
                             Lookup(strategies, id))
        /\ last_task' = NoTask
        /\ UNCHANGED <<active_connections, is_running, global_risk_limits, exec_pc,
                       tick_tasks, tick_active, tick_log>>
        /\ last_processed' = NoSignal
        /\ UNCHANGED <<signal_queue, signal_task, tick_metrics>>
        /\ last_processed' = NoSignal
    /\ UNCHANGED <<signal_queue, signal_task, tick_metrics>>
    /\ UNCHANGED <<riskVars, syncVars, loopVars>>

PauseStrategy(Ids) ==
    \E id \in Ids :
        /\ strategies' = pause_strategy(strategies, id)
        /\ last_call' = Call("pause_strategy", id, id \in DOMAIN strategies,
                             Lookup(strategies, id))
        /\ last_task' = NoTask
        /\ UNCHANGED <<active_connections, is_running, global_risk_limits, exec_pc,
                       tick_tasks, tick_active, tick_log>>
        /\ last_processed' = NoSignal
        /\ UNCHANGED <<signal_queue, signal_task, tick_metrics>>
        /\ last_processed' = NoSignal
    /\ UNCHANGED <<signal_queue, signal_task, tick_metrics>>
    /\ UNCHANGED <<riskVars, syncVars, loopVars>>

\* the connection is kept only when the wallet request returns retCode 0
AddConnection(Conns, Replies) ==
    \E connection_id \in Conns, reply \in Replies :
        /\ active_connections' = IF reply = "ok"
                                 THEN active_connections \cup {connection_id}
                                 ELSE active_connections
        /\ last_call' = NoCall
        /\ last_task' = NoTask
        /\ UNCHANGED <<strategies, is_running, global_risk_limits, exec_pc,
                       tick_tasks, tick_active, tick_log>>
        /\ last_processed' = NoSignal
        /\ UNCHANGED <<signal_queue, signal_task, tick_metrics>>
        /\ last_processed' = NoSignal
    /\ UNCHANGED <<signal_queue, signal_task, tick_metrics>>
    /\ UNCHANGED <<riskVars, syncVars, loopVars>>

\* _load_strategies_from_db loads nothing: load_all_strategies raises on its
\* last line and the error is swallowed
StartEngine ==
    /\ is_running' = TRUE
    /\ exec_pc' = IF is_running THEN exec_pc ELSE "idle"
    /\ last_call' = NoCall
    /\ last_task' = NoTask
    /\ UNCHANGED <<strategies, active_connections, global_risk_limits,
                   tick_tasks, tick_active, tick_log>>
    /\ last_processed' = NoSignal
    /\ signal_task' = TRUE
    /\ UNCHANGED <<signal_queue, tick_metrics>>
    /\ UNCHANGED <<riskVars, syncVars, loopVars>>

\* cancelling the execution loop cancels the tasks it is gathering; the task
\* of _process_signals is not cancelled
StopEngine ==
    /\ is_running' = FALSE
    /\ exec_pc' = "stopped"
    /\ tick_tasks' = <<>>
    /\ tick_active' = {}
    /\ tick_log' = EmptyDict
    /\ strategies' = stop_all(strategies)
    /\ last_call' = NoCall
    /\ last_task' = NoTask
    /\ UNCHANGED <<active_connections, global_risk_limits>>
    /\ last_processed' = NoSignal
    /\ tick_metrics' = NoMetrics
    /\ UNCHANGED <<signal_queue, signal_task>>
    /\ UNCHANGED <<riskVars, syncVars, loopVars>>

ActiveIds(reg) == {id \in DOMAIN reg : reg[id].status = "ACTIVE"}

Task(reg, id) ==
    [id |-> id, attached |-> TRUE,
     connection_id |-> reg[id].connection_id, symbol |-> reg[id].symbol,
     leverage |-> reg[id].leverage]

create_tasks(reg) ==
    LET ids == SelectSeq(StrategyOrder, LAMBDA id : id \in ActiveIds(reg))
    IN [i \in DOMAIN ids |-> Task(reg, ids[i])]

\* _execute_strategies up to its await of gather
ExecuteStrategies ==
    /\ exec_pc = "idle"
    /\ IF ActiveIds(strategies) = {}
       THEN UNCHANGED <<exec_pc, tick_tasks, tick_active, tick_log, tick_metrics>>
       ELSE /\ exec_pc' = "gather"
            /\ tick_tasks' = create_tasks(strategies)
            /\ tick_active' = ActiveIds(strategies)
            /\ tick_log' = EmptyDict
            /\ tick_metrics' = portfolio_metrics
    /\ last_call' = NoCall
    /\ last_task' = NoTask
    /\ UNCHANGED <<strategies, active_connections, is_running, global_risk_limits>>
    /\ last_processed' = NoSignal
    /\ UNCHANGED <<signal_queue, signal_task>>
    /\ UNCHANGED <<riskVars, syncVars, loopVars>>

\* the first pending task runs _execute_single_strategy to its end
ExecuteSingleStrategy(KlineReplies, LeverageReplies, OrderReplies) ==
    /\ exec_pc = "gather"
    /\ tick_tasks # <<>>
    /\ \E kline \in KlineReplies, leverage_reply \in LeverageReplies,
          order_reply \in OrderReplies :
        LET task == Head(tick_tasks)
            result == execute_single_strategy(task, active_connections,
                          global_risk_limits, kline, leverage_reply, order_reply)
        IN /\ strategies' = IF result.error /\ task.attached
                            THEN set_status(strategies, task.id, "ERROR")
                            ELSE strategies
           /\ tick_tasks' = remaining_tasks(tick_tasks, result)
           /\ tick_log' = DictPut(tick_log, task.id, result.fault # "none")
           /\ last_task' = [id |-> task.id, result |-> result]
           /\ signal_queue' = queue_after(signal_queue, result)
           /\ Len(signal_queue') <= MaxQueue
    /\ last_call' = NoCall
    /\ UNCHANGED <<active_connections, is_running, global_risk_limits, exec_pc,
                   tick_active, signal_task, tick_metrics>>
    /\ last_processed' = NoSignal
    /\ UNCHANGED <<riskVars, syncVars, loopVars>>

\* gather returns, the tick is over and the loop sleeps
GatherDone ==
    /\ exec_pc = "gather"
    /\ tick_tasks = <<>>
    /\ exec_pc' = "idle"
    /\ tick_active' = {}
    /\ tick_log' = EmptyDict
    /\ last_call' = NoCall
    /\ last_task' = NoTask
    /\ UNCHANGED <<strategies, active_connections, is_running, global_risk_limits,
                   tick_tasks>>
    /\ last_processed' = NoSignal
    /\ tick_metrics' = NoMetrics
    /\ UNCHANGED <<signal_queue, signal_task>>
    /\ UNCHANGED <<riskVars, syncVars, loopVars>>

\* one iteration of the engine's _monitoring_loop
CheckGlobalRisk(Pnls) ==
    /\ is_running
    /\ \E wallet \in [active_connections -> Pnls] :
        LET r == check_global_risk(strategies, global_risk_limits,
                                   total_pnl(active_connections, wallet))
        IN /\ strategies' = r.strategies
           /\ global_risk_limits' = r.global_risk_limits
    /\ last_call' = NoCall
    /\ last_task' = NoTask
    /\ UNCHANGED <<active_connections, is_running, exec_pc, tick_tasks,
                   tick_active, tick_log>>
    /\ last_processed' = NoSignal
    /\ UNCHANGED <<signal_queue, signal_task, tick_metrics>>
    /\ UNCHANGED <<riskVars, syncVars, loopVars>>

\* the task of _process_signals gets a signal from the queue; it tests
\* is_running before it waits for the next one
ProcessSignals ==
    /\ signal_task
    /\ signal_queue # <<>>
    /\ signal_queue' = Tail(signal_queue)
    /\ last_processed' = process_signal(Head(signal_queue))
    /\ signal_task' = is_running
    /\ last_call' = NoCall
    /\ last_task' = NoTask
    /\ UNCHANGED <<strategies, active_connections, is_running, global_risk_limits,
                   exec_pc, tick_tasks, tick_active, tick_log, tick_metrics>>
    /\ UNCHANGED <<riskVars, syncVars, loopVars>>

\* the wait of _process_signals for a signal times out after stop_engine:
\* the loop ends
ProcessSignalsExit ==
    /\ signal_task
    /\ ~is_running
    /\ signal_queue = <<>>
    /\ signal_task' = FALSE
    /\ last_call' = NoCall
    /\ last_task' = NoTask
    /\ last_processed' = NoSignal
    /\ UNCHANGED <<strategies, active_connections, is_running, global_risk_limits,
                   exec_pc, tick_tasks, tick_active, tick_log, signal_queue,
                   tick_metrics>>
    /\ UNCHANGED <<riskVars, syncVars, loopVars>>

(***************************************************************************)
(* PositionSyncService                                                     *)
(***************************************************************************)
SyncConnections == {"c1", "c2"}
\* active_connections is a dict: its items are visited in insertion order,
\* here the order of the ids
SyncOrder == <<"c1", "c2">>

\* result['result']['list'] of get_positions: an open position, the same
\* position moved by less than every threshold, the same position with
\* another pnl, a short position, an entry of size 0, and the two entries
\* of one symbol an account in hedge mode holds.  A position holds the
\* fields the service reads: size in units of 0.0001, unrealized_pnl,
\* mark_price and percentage in units of 0.001
ExchangeLists ==
    LET Position(symbol, side, size, unrealized_pnl, mark_price, percentage) ==
            [symbol |-> symbol, side |-> side, size |-> size,
             unrealized_pnl |-> unrealized_pnl, mark_price |-> mark_price,
             percentage |-> percentage]
        open == Position("BTCUSDT", "Buy", 10000, 0, 50000, 0)
        noise == Position("BTCUSDT", "Buy", 10005, 5, 50005, 5)
        moved == Position("BTCUSDT", "Buy", 10000, 2000, 50000, 400)
        hedge == Position("BTCUSDT", "Sell", 20000, 0, 50000, 0)
        short == Position("ETHUSDT", "Sell", 10000, 0, 50000, 0)
        flat == Position("ETHUSDT", "Buy", 0, 0, 50000, 0)
    IN {<<>>, <<open>>, <<noise>>, <<moved, short>>, <<open, flat>>, <<open, hedge>>}

\* what session.get_positions does: return retCode 0 with a list, return
\* another retCode, or raise
SyncReplies ==
    {[kind |-> "retcode"], [kind |-> "raise"]}
    \cup {[kind |-> "ok", list |-> l] : l \in ExchangeLists}

NoCycle == [none |-> TRUE]

\* the positions _fetch_all_positions stores for a connection
fetch_positions(reply) ==
    IF reply.kind = "ok"
    THEN SelectSeq(reply.list, LAMBDA pos : pos.size > 0)
    ELSE <<>>

thresholds ==
    [size |-> 10, unrealized_pnl |-> 10, mark_price |-> 10, percentage |-> 10]

\* mutant: only the size of the position is compared
has_significant_change_size_only(old_pos, new_pos) ==
    Abs(new_pos.size - old_pos.size) > thresholds.size

has_significant_change(old_pos, new_pos) ==
    \E field \in DOMAIN thresholds :
        Abs(new_pos[field] - old_pos[field]) > thresholds[field]

\* position: change.get('new_position') or change['position']
Change(type, connection_id, position) ==
    [type |-> type, connection_id |-> connection_id, symbol |-> position.symbol,
     position |-> position]

\* the changes appended by the iterations of a loop, in order
RECURSIVE Flatten(_)
Flatten(seqs) ==
    IF seqs = <<>> THEN <<>> ELSE Head(seqs) \o Flatten(Tail(seqs))

\* current_positions.get(connection_id, [])
Positions(cache, c) == IF c \in DOMAIN cache THEN cache[c] ELSE <<>>

\* first: the loop over the new positions of a connection, old_symbols
\* holding the last cached position of each symbol; second: the loop over
\* its cached positions
detect_position_changes(current, new) ==
    LET symbols(list) == {list[i].symbol : i \in DOMAIN list}
        first(c) ==
            LET old == Positions(current, c)
                old_symbols ==
                    [symbol \in symbols(old) |->
                        old[CHOOSE i \in DOMAIN old :
                              /\ old[i].symbol = symbol
                              /\ \A j \in DOMAIN old : old[j].symbol = symbol => j <= i]]
                change(new_pos) ==
                    IF new_pos.symbol \notin DOMAIN old_symbols
                    THEN <<Change("NEW", c, new_pos)>>
                    ELSE IF has_significant_change(old_symbols[new_pos.symbol], new_pos)
                    THEN <<Change("UPDATED", c, new_pos)>>
                    ELSE <<>>
            IN IF c \in DOMAIN new
               THEN Flatten([i \in DOMAIN new[c] |-> change(new[c][i])])
               ELSE <<>>
        second(c) ==
            LET old == Positions(current, c)
                new_symbols == symbols(Positions(new, c))
                change(old_pos) ==
                    IF old_pos.symbol \notin new_symbols
                    THEN <<Change("CLOSED", c, old_pos)>> ELSE <<>>
            IN Flatten([i \in DOMAIN old |-> change(old[i])])
    IN Flatten([i \in DOMAIN SyncOrder |-> first(SyncOrder[i])])
       \o Flatten([i \in DOMAIN SyncOrder |-> second(SyncOrder[i])])

\* the rows _update_positions_in_db hands to save_position; id stands for
\* the key pos_<connection_id>_<symbol>
update_positions_in_db(changes) ==
    [i \in DOMAIN changes |->
        LET position == changes[i].position
            closed == changes[i].type = "CLOSED"
        IN [id |-> <<changes[i].connection_id, position.symbol>>,
            connection_id |-> changes[i].connection_id, symbol |-> position.symbol,
            size |-> IF closed THEN 0 ELSE position.size,
            unrealized_pnl |-> IF closed THEN 0 ELSE position.unrealized_pnl,
            realized_pnl |-> IF closed THEN position.unrealized_pnl ELSE 0,
            status |-> IF closed THEN "CLOSED" ELSE "OPEN"]]

\* INSERT OR REPLACE of the rows, in order: the status each id ends with
RECURSIVE save_position(_, _)
save_position(table, rows) ==
    IF rows = <<>> THEN table
    ELSE save_position(DictPut(table, Head(rows).id, Head(rows).status), Tail(rows))

\* the count and the total the summary reports
get_position_summary(cache) ==
    LET all == Flatten([i \in DOMAIN SyncOrder |-> Positions(cache, SyncOrder[i])])
    IN [total_positions |-> Len(all),
        total_unrealized_pnl |->
            SumOver(DOMAIN all, [i \in DOMAIN all |-> all[i].unrealized_pnl])]

NoSummary == [none |-> TRUE]

\* _sync_all_positions with connections to sync, up to the broadcast: what
\* it fetched, detected and saved for its caller
sync_all_positions(caller, conns, current, replies) ==
    LET new_positions == [c \in conns |-> fetch_positions(replies[c])]
        changes == detect_position_changes(current, new_positions)
    IN [caller |-> caller, before |-> current, replies |-> replies,
        new_positions |-> new_positions, changes |-> changes,
        saved |-> update_positions_in_db(changes), broadcast |-> changes # <<>>,
        summary |-> NoSummary]

\* mutant: the reconciled positions are added to the cached ones
replace_positions_merged(current, cycle) ==
    [c \in DOMAIN cycle.new_positions |-> Positions(current, c) \o cycle.new_positions[c]]

\* mutant: the cache is left as it is
replace_positions_kept(current, cycle) == current

\* self.current_positions = new_positions
replace_positions(current, cycle) == cycle.new_positions

NoClose == [none |-> TRUE]

\* mutant: the closing order is submitted on the side of the position
close_position_same_side(conns, current, connection_id, symbol, quantity, reply) ==
    LET cached == SelectSeq(Positions(current, connection_id),
                            LAMBDA pos : pos.symbol = symbol)
        call == [connection_id |-> connection_id, symbol |-> symbol,
                 quantity |-> quantity, reply |-> reply]
    IN IF connection_id \notin conns \/ cached = <<>>
       THEN call @@ [orders |-> <<>>, accepted |-> FALSE]
       ELSE call @@ [orders |-> <<[symbol |-> symbol, side |-> Head(cached).side,
                                   orderType |-> "Market",
                                   qty |-> IF quantity # 0 THEN quantity
                                           ELSE Head(cached).size,
                                   reduceOnly |-> TRUE]>>,
                     accepted |-> reply = "ok"]

\* close_position up to the reply of place_order: the orders it submits and
\* whether the exchange accepted
close_position(conns, current, connection_id, symbol, quantity, reply) ==
    LET cached == SelectSeq(Positions(current, connection_id),
                            LAMBDA pos : pos.symbol = symbol)
        position == Head(cached)
        order == [symbol |-> symbol,
                  side |-> IF position.side = "Buy" THEN "Sell" ELSE "Buy",
                  orderType |-> "Market",
                  qty |-> IF quantity # 0 THEN quantity ELSE position.size,
                  reduceOnly |-> TRUE]
        call == [connection_id |-> connection_id, symbol |-> symbol,
                 quantity |-> quantity, reply |-> reply]
    IN IF connection_id \notin conns \/ cached = <<>>
       THEN call @@ [orders |-> <<>>, accepted |-> FALSE]
       ELSE call @@ [orders |-> <<order>>, accepted |-> reply = "ok"]

SyncInit ==
    /\ sync_connections = {}
    /\ current_positions = EmptyDict
    /\ sync_is_running = FALSE
    /\ sync_tasks = <<>>
    /\ positions_db = EmptyDict
    /\ last_cycle = NoCycle
    /\ last_close = NoClose

SyncAddConnection(Conns) ==
    \E connection_id \in Conns :
        /\ sync_connections' = sync_connections \cup {connection_id}
        /\ current_positions' = DictPut(current_positions, connection_id, <<>>)
        /\ last_cycle' = NoCycle
        /\ last_close' = NoClose
        /\ UNCHANGED <<sync_is_running, sync_tasks, positions_db>>
        /\ UNCHANGED <<riskVars, engineVars, loopVars>>

SyncRemoveConnection(Conns) ==
    \E connection_id \in Conns :
        /\ sync_connections' = sync_connections \ {connection_id}
        /\ current_positions' = DictDel(current_positions, connection_id)
        /\ last_cycle' = NoCycle
        /\ last_close' = NoClose
        /\ UNCHANGED <<sync_is_running, sync_tasks, positions_db>>
        /\ UNCHANGED <<riskVars, engineVars, loopVars>>

\* start: returns at once when the service is running; otherwise it sets
\* the flag and creates a task running _sync_loop, whose handle is not kept
SyncStart ==
    /\ IF sync_is_running
       THEN UNCHANGED <<sync_is_running, sync_loops>>
       ELSE /\ sync_loops < MaxLoops
            /\ sync_is_running' = TRUE
            /\ sync_loops' = sync_loops + 1
    /\ last_cycle' = NoCycle
    /\ last_close' = NoClose
    /\ UNCHANGED <<sync_connections, current_positions, sync_tasks, positions_db>>
    /\ UNCHANGED <<riskVars, engineVars, loop_iterations, loop_fault>>

SyncStop ==
    /\ sync_is_running' = FALSE
    /\ last_cycle' = NoCycle
    /\ last_close' = NoClose
    /\ UNCHANGED <<sync_connections, current_positions, sync_tasks, positions_db>>
    /\ UNCHANGED <<riskVars, engineVars, loopVars>>

\* the coroutines suspended inside a cycle of _sync_loop
LoopCycles(tasks) ==
    Cardinality({i \in DOMAIN tasks : tasks[i].cycle.caller = "sync_loop"})

\* a task of _sync_loop whose sleep is over finds is_running cleared at the
\* test of its while and ends
SyncLoopExit ==
    /\ ~sync_is_running
    /\ sync_loops > LoopCycles(sync_tasks)
    /\ sync_loops' = sync_loops - 1
    /\ last_cycle' = NoCycle
    /\ last_close' = NoClose
    /\ UNCHANGED <<sync_connections, current_positions, sync_is_running, sync_tasks,
                   positions_db>>
    /\ UNCHANGED <<riskVars, engineVars, loop_iterations, loop_fault>>

\* _sync_all_positions called by caller while the coroutines in others are
\* suspended: it returns at once without connections and otherwise fetches,
\* detects and saves; it then runs to its end when it has nothing to
\* broadcast or the subscriptions have no subscriber, the summary computed
\* before the cache is replaced, and is suspended in the first send of
\* _broadcast_position_changes when they have one
BeginCycle(caller, others, Replies, Subscribed) ==
    IF sync_connections = {}
    THEN /\ sync_tasks' = others
         /\ last_cycle' = NoCycle
         /\ UNCHANGED <<current_positions, positions_db>>
    ELSE \E replies \in [sync_connections -> Replies], subscribed \in Subscribed :
           LET cycle == sync_all_positions(caller, sync_connections, current_positions,
                                           replies)
               summary == IF cycle.broadcast THEN get_position_summary(current_positions)
                          ELSE NoSummary
           IN /\ positions_db' = save_position(positions_db, cycle.saved)
              /\ IF cycle.broadcast /\ subscribed
                 THEN /\ sync_tasks' = Append(others, [stage |-> "changes", cycle |-> cycle])
                      /\ Len(sync_tasks') <= MaxTasks
                      /\ last_cycle' = NoCycle
                      /\ UNCHANGED current_positions
                 ELSE /\ current_positions' = replace_positions(current_positions, cycle)
                      /\ sync_tasks' = others
                      /\ last_cycle' = [cycle EXCEPT !.summary = summary]

\* one iteration of a task of _sync_loop, which runs its cycles one after
\* the other, or force_sync
SyncAllPositions(Callers, Replies, Subscribed) ==
    \E caller \in Callers :
        /\ caller = "sync_loop"
              => /\ sync_is_running
                 /\ LoopCycles(sync_tasks) < sync_loops
        /\ BeginCycle(caller, sync_tasks, Replies, Subscribed)
        /\ last_close' = NoClose
        /\ UNCHANGED <<sync_connections, sync_is_running>>
        /\ UNCHANGED <<riskVars, engineVars, loopVars>>

\* close_position: after an accepted order it is suspended in
\* asyncio.sleep(1), before its force_sync
ClosePosition(Conns, Syms, Qtys, Replies) ==
    \E connection_id \in Conns, symbol \in Syms, quantity \in Qtys, reply \in Replies :
        LET call == close_position(sync_connections, current_positions, connection_id,
                                   symbol, quantity, reply)
        IN /\ last_close' = call
           /\ sync_tasks' =
                IF call.accepted
                THEN Append(sync_tasks,
                            [stage |-> "sleep", cycle |-> [caller |-> "close_position"]])
                ELSE sync_tasks
           /\ Len(sync_tasks') <= MaxTasks
           /\ last_cycle' = NoCycle
           /\ UNCHANGED <<sync_connections, current_positions, sync_is_running,
                          positions_db>>
           /\ UNCHANGED <<riskVars, engineVars, loopVars>>

\* a suspended coroutine runs to its next suspension or to its end: the
\* force_sync of close_position begins, the summary is computed after the
\* changes are broadcast, and the cache is replaced after the summary is
Resume(Replies, Subscribed) ==
    \E i \in DOMAIN sync_tasks :
        LET task == sync_tasks[i]
            others == SubSeq(sync_tasks, 1, i - 1) \o SubSeq(sync_tasks, i + 1, Len(sync_tasks))
        IN /\ CASE task.stage = "sleep" ->
                     BeginCycle("close_position", others, Replies, Subscribed)
                [] task.stage = "changes" ->
                     /\ sync_tasks' =
                          Append(others,
                                 [stage |-> "summary",
                                  cycle |-> [task.cycle EXCEPT !.summary =
                                               get_position_summary(current_positions)]])
                     /\ last_cycle' = NoCycle
                     /\ UNCHANGED <<current_positions, positions_db>>
                [] task.stage = "summary" ->
                     /\ current_positions' = replace_positions(current_positions, task.cycle)
                     /\ sync_tasks' = others
                     /\ last_cycle' = task.cycle
                     /\ UNCHANGED positions_db
           /\ last_close' = NoClose
           /\ UNCHANGED <<sync_connections, sync_is_running>>
           /\ UNCHANGED <<riskVars, engineVars, loopVars>>

(***************************************************************************)
(* The loops: while flag: try: body; sleep  except Exception: sleep        *)
(***************************************************************************)
Loops == {"execution", "engine_monitoring", "risk_monitoring", "position_sync"}

\* mutant: the handler of the loop leaves the loop
loop_continues_until_fault(flag, fault) == flag /\ ~fault

\* the test of the while, reached after the sleep of the try block and after
\* the sleep of the handler alike
loop_continues(flag, fault) == flag

LoopInit ==
    /\ loop_iterations = [l \in Loops |-> 0]
    /\ loop_fault = [l \in Loops |-> FALSE]
    /\ sync_loops = 0

\* the flag the while of the loop tests
LoopFlag(l) ==
    CASE l = "risk_monitoring" -> is_monitoring
      [] l = "position_sync" -> sync_is_running
      [] OTHER -> is_running

\* the loop passes its test and runs its body once, which returns or raises
LoopIteration(Ls, Outcomes) ==
    \E l \in Ls, outcome \in Outcomes :
        /\ loop_continues(LoopFlag(l), loop_fault[l])
        /\ loop_iterations[l] < MaxIterations
        /\ loop_iterations' = [loop_iterations EXCEPT ![l] = @ + 1]
        /\ loop_fault' = [loop_fault EXCEPT ![l] = (outcome = "raise")]
        /\ UNCHANGED <<riskVars, engineVars, syncVars, sync_loops>>

Init == RiskInit /\ EngineInit /\ SyncInit /\ LoopInit

(***************************************************************************)
(* The RiskManager on its own                                              *)
(***************************************************************************)
RiskNext ==
    \/ SetGlobalLimit(LimitUpdates)
    \/ SetStrategyLimits({"s1"}, StrategyLimitInputs)
    \/ StartMonitoring
    \/ StopMonitoring
    \/ MonitoringCycle(RealEquities, DailyInputs, {"losses", "no_trades"})
    \/ ValidateTrade(StrategyIds, {"BTCUSDT"}, Sides, Quantities, Prices, Leverages)
    \/ UpdatePositionRisk({"BTCUSDT"}, PositionInputs)
    \/ RemovePositionRisk({"BTCUSDT"})
    \/ ResetEmergencyStop

SpecRisk == Init /\ [][RiskNext]_vars

(***************************************************************************)
(* The RiskManager with trades and positions around its ceilings           *)
(***************************************************************************)
LimitsNext ==
    \/ SetGlobalLimit(LimitCeilings)
    \/ SetStrategyLimits({"s1"}, StrategyLimitInputs)
    \/ StartMonitoring
    \/ MonitoringCycle({0, 10000}, DailyInputs, {"losses"})
    \/ ValidateTrade({"s1"}, {"BTCUSDT"}, {"BUY"}, Quantities, CeilingPrices, {1, 20})
    \/ UpdatePositionRisk({"ETHUSDT"}, ExposedPositions)
    \/ RemovePositionRisk({"ETHUSDT"})
    \/ ResetEmergencyStop

SpecLimits == Init /\ [][LimitsNext]_vars

(***************************************************************************)
(* The StrategyExecutionEngine on its own                                  *)
(***************************************************************************)
EngineNext ==
    \/ AddStrategy({"s1", "s2"}, StrategyProfiles)
    \/ RemoveStrategy({"s1", "s2"})
    \/ ActivateStrategy({"s1", "s2"})
    \/ PauseStrategy({"s1", "s2"})
    \/ AddConnection(ConnectionIds, ExchangeReplies)
    \/ StartEngine
    \/ StopEngine
    \/ ExecuteStrategies
    \/ ExecuteSingleStrategy(Klines \ {"retcode", "SELL"}, {"ok", "retcode"},
                             ExchangeReplies)
    \/ GatherDone
    \/ CheckGlobalRisk(WalletPnls)
    \/ ProcessSignals
    \/ ProcessSignalsExit

SpecEngine == Init /\ [][EngineNext]_vars

(***************************************************************************)
(* Risk monitoring and strategy execution side by side: one strategy, one  *)
(* connection, the risk-monitoring loop and the execution loop             *)
(***************************************************************************)
ControlNext ==
    \/ StartMonitoring
    \/ MonitoringCycle({8000, 10000}, {[is_none |-> FALSE, value |-> 0]}, {"losses"})
    \/ ValidateTrade({"s1"}, {"BTCUSDT"}, {"BUY"}, Quantities, Prices, {1})
    \/ ResetEmergencyStop
    \/ AddStrategy({"s1"}, {[connection_id |-> "c1", symbol |-> "BTCUSDT", leverage |-> 5]})
    \/ ActivateStrategy({"s1"})
    \/ AddConnection({"c1"}, {"ok"})
    \/ StartEngine
    \/ StopEngine
    \/ ExecuteStrategies
    \/ ExecuteSingleStrategy({"flat", "BUY", "SELL"}, {"ok"}, {"ok", "retcode"})
    \/ GatherDone
    \/ CheckGlobalRisk(WalletPnls)
    \/ ProcessSignals
    \/ ProcessSignalsExit

SpecControl == Init /\ [][ControlNext]_vars

(***************************************************************************)
(* The engine trading while the RiskManager holds positions at its cap     *)
(***************************************************************************)
CapNext ==
    \/ SetGlobalLimit({<<"max_positions", 1>>})
    \/ UpdatePositionRisk({"ETHUSDT"}, ExposedPositions)
    \/ RemovePositionRisk({"ETHUSDT"})
    \/ AddStrategy({"s1"}, {[connection_id |-> "c1", symbol |-> "BTCUSDT", leverage |-> 5]})
    \/ ActivateStrategy({"s1"})
    \/ AddConnection({"c1"}, {"ok"})
    \/ StartEngine
    \/ StopEngine
    \/ ExecuteStrategies
    \/ ExecuteSingleStrategy({"flat", "BUY", "SELL"}, {"ok"}, {"ok", "retcode"})
    \/ GatherDone
    \/ ProcessSignals
    \/ ProcessSignalsExit

SpecCap == Init /\ [][CapNext]_vars

(***************************************************************************)
(* The loops of the three services, started and stopped; a loop whose      *)
(* sleep is over is resumed by the event loop, whatever the other tasks do *)
(***************************************************************************)
LoopsNext ==
    \/ StartEngine
    \/ StopEngine
    \/ StartMonitoring
    \/ StopMonitoring
    \/ SyncStart
    \/ SyncStop
    \/ SyncLoopExit
    \/ \E l \in Loops : LoopIteration({l}, {"return", "raise"})

SpecLoops ==
    /\ Init
    /\ [][LoopsNext]_vars
    /\ \A l \in Loops : WF_vars(LoopIteration({l}, {"return", "raise"}))

(***************************************************************************)
(* The PositionSyncService on its own                                      *)
(***************************************************************************)
\* no client has subscribed to the broadcasts: a cycle is never suspended
SyncNext ==
    \/ SyncAddConnection(SyncConnections)
    \/ SyncRemoveConnection(SyncConnections)
    \/ SyncAllPositions({"force_sync"}, SyncReplies, {FALSE})

SpecSync == Init /\ [][SyncNext]_vars

(***************************************************************************)
(* The started PositionSyncService of one account with clients subscribed  *)
(* to its broadcasts: the cycles of the loop, of force_sync and of         *)
(* close_position are suspended while they send and overlap                *)
(***************************************************************************)
\* the account holds no position or one open position
OverlapReplies ==
    {reply \in SyncReplies :
        /\ reply.kind = "ok"
        /\ Len(reply.list) <= 1
        /\ \A i \in DOMAIN reply.list : reply.list[i].size = 10000}

BroadcastNext ==
    \/ SyncAddConnection({"c1"})
    \/ SyncRemoveConnection({"c1"})
    \/ SyncStart
    \/ SyncAllPositions({"sync_loop", "force_sync"}, OverlapReplies, {TRUE})
    \/ ClosePosition(SyncConnections, {"BTCUSDT"}, {0, 5000}, {"ok", "retcode"})
    \/ Resume(OverlapReplies, {TRUE})

SpecBroadcast == Init /\ [][BroadcastNext]_vars

(***************************************************************************)
(* The same service started and stopped: stop clears the flag, and the     *)
(* tasks of _sync_loop end when they next test it                          *)
(***************************************************************************)
OverlapNext ==
    \/ SyncAddConnection({"c1"})
    \/ SyncStart
    \/ SyncStop
    \/ SyncLoopExit
    \/ SyncAllPositions({"sync_loop", "force_sync"}, OverlapReplies, {TRUE})
    \/ ClosePosition({"c1"}, {"BTCUSDT"}, {0}, {"ok"})
    \/ Resume(OverlapReplies, {TRUE})

SpecOverlap == Init /\ [][OverlapNext]_vars


(***************************************************************************)
(* Claims about the RiskManager's emergency stop (under SpecRisk)          *)
(***************************************************************************)
Range(seq) == {seq[i] : i \in DOMAIN seq}

RiskCycle == MonitoringCycle(RealEquities, DailyInputs, {"losses", "no_trades"})

EmergencyAlert == Alert("EMERGENCY_STOP", "CRITICAL", "")

CountEmergencyAlerts(alerts) ==
    Cardinality({i \in DOMAIN alerts : alerts[i].alert_type = "EMERGENCY_STOP"})

DrawdownOverLimit(pm, gl) ==
    HasMetrics(pm) /\ DrawdownExceeds(pm, gl.max_portfolio_drawdown, 100)

\* C1: whenever validate_trade returns while the emergency stop is set, it
\* returns accepted = FALSE and its violations include the emergency-stop
\* message, whatever the signal and whatever other limits are violated.
C1_StopRejectsEverySignal ==
    (last_validation # NoValidation /\ emergency_stop_triggered)
        => /\ ~last_validation.accepted
           /\ MsgEmergencyStop \in Range(last_validation.violations)

\* a validation returned while the stop is set and no other limit is violated
C1_Witness ==
    /\ emergency_stop_triggered
    /\ last_validation # NoValidation
    /\ last_validation.violations = <<MsgEmergencyStop>>

\* C3: the emergency stop changes from set to not set only in a
\* reset_emergency_stop step.
C3_StopClearedOnlyByReset ==
    [][(emergency_stop_triggered /\ ~emergency_stop_triggered') => ResetEmergencyStop]_riskVars

\* the stop is still set although the drawdown is back under the limit and
\* monitoring has been stopped
C3_Witness ==
    /\ emergency_stop_triggered
    /\ HasMetrics(portfolio_metrics)
    /\ ~DrawdownOverLimit(portfolio_metrics, global_limits)
    /\ ~is_monitoring

\* C4: a monitoring cycle that ends with a current drawdown above
\* max_portfolio_drawdown ends with the emergency stop set, and, when the
\* stop was not already set, with an EMERGENCY_STOP alert of level CRITICAL
\* in risk_alerts.
C4_DrawdownTriggersStop ==
    [][~(/\ DrawdownOverLimit(portfolio_metrics', global_limits)
         /\ ~(/\ emergency_stop_triggered'
              /\ (~emergency_stop_triggered => EmergencyAlert \in Range(risk_alerts')))
         /\ RiskCycle)]_riskVars

\* a cycle has set the stop: drawdown over the limit, stop set, alert recorded
C4_Witness ==
    /\ DrawdownOverLimit(portfolio_metrics, global_limits)
    /\ emergency_stop_triggered
    /\ risk_stats.emergency_stops = 1
    /\ EmergencyAlert \in Range(risk_alerts)

\* C5: a monitoring cycle that triggers the emergency stop while it is
\* already set leaves the flag set, the emergency_stops statistic as it was
\* and adds no EMERGENCY_STOP alert.
C5_TriggerIdempotent ==
    [][~(/\ emergency_stop_triggered
         /\ DrawdownOverLimit(portfolio_metrics', global_limits)
         /\ ~(/\ emergency_stop_triggered'
              /\ risk_stats'.emergency_stops = risk_stats.emergency_stops
              /\ CountEmergencyAlerts(risk_alerts') <= CountEmergencyAlerts(risk_alerts))
         /\ RiskCycle)]_riskVars

\* the stop was triggered again while set: a second DRAWDOWN alert past the
\* limit, still one emergency stop counted and one EMERGENCY_STOP alert
C5_Witness ==
    /\ emergency_stop_triggered
    /\ risk_stats.emergency_stops = 1
    /\ DrawdownOverLimit(portfolio_metrics, global_limits)
    /\ Len(risk_alerts) = 2
    /\ risk_alerts[1].alert_type = "EMERGENCY_STOP"
    /\ risk_alerts[2].alert_type = "DRAWDOWN"

(***************************************************************************)
(* Claims about the shared emergency stop (under SpecControl)              *)
(***************************************************************************)
\* C2: while the RiskManager's emergency stop is set, no step of the engine
\* calls place_order, for any strategy.
C2_NoOrderWhileStopped ==
    (emergency_stop_triggered /\ last_task # NoTask)
        => last_task.result.order = NoOrder

(***************************************************************************)
(* Claims about the strategy registry and the execution tick (under        *)
(* SpecEngine)                                                             *)
(***************************************************************************)
StatusEdges ==
    {<<"INACTIVE", "ACTIVE">>, <<"ACTIVE", "PAUSED">>, <<"PAUSED", "ACTIVE">>,
     <<"ACTIVE", "ERROR">>, <<"ACTIVE", "STOPPED">>,
     <<"ERROR", "ACTIVE">>, <<"STOPPED", "ACTIVE">>}

TargetStatus(op) == IF op = "activate_strategy" THEN "ACTIVE" ELSE "PAUSED"

TickOver == exec_pc = "gather" /\ tick_tasks = <<>>

PendingIds == {tick_tasks[i].id : i \in DOMAIN tick_tasks}

\* C6: every step other than add_strategy that changes the status of a
\* registered strategy changes it along an edge of the status graph, and
\* takes it out of ERROR or STOPPED only by activate_strategy.
C6_StatusGraph ==
    [][last_call'.op # "add_strategy"
        => \A id \in (DOMAIN strategies) \cap (DOMAIN strategies') :
              strategies'[id].status # strategies[id].status
                => /\ <<strategies[id].status, strategies'[id].status>> \in StatusEdges
                   /\ strategies[id].status \in {"ERROR", "STOPPED"}
                        => last_call'.op = "activate_strategy"]_vars

\* C7: activate_strategy or pause_strategy on a registered strategy whose
\* status has no edge to the requested status returns failure and leaves the
\* status as it was.
C7_InvalidTransitionRejected ==
    (/\ last_call.op \in {"activate_strategy", "pause_strategy"}
     /\ last_call.before # NoStrategy
     /\ <<last_call.before.status, TargetStatus(last_call.op)>> \notin StatusEdges)
        => /\ ~last_call.ok
           /\ strategies[last_call.id].status = last_call.before.status

\* C8: add_strategy with an id that is already registered returns failure
\* and leaves the registered strategy as it was.
C8_DuplicateIdRejected ==
    (last_call.op = "add_strategy" /\ last_call.before # NoStrategy)
        => /\ ~last_call.ok
           /\ strategies[last_call.id] = last_call.before

\* C9: during a tick no collected strategy is dropped, whatever faults the
\* strategies processed so far have met: each is either processed or still
\* pending, so that all have been processed when the tick is over; and a
\* strategy whose signal is approved has its trade executed (set_leverage or
\* place_order called) in the same step.
C9_FaultIsolation ==
    /\ exec_pc = "gather" => tick_active = (DOMAIN tick_log) \cup PendingIds
    /\ TickOver => tick_active = DOMAIN tick_log
    /\ (last_task # NoTask /\ last_task.result.approved)
          => (last_task.result.order # NoOrder
              \/ last_task.result.fault = "set_leverage")

\* the tick of two strategies is over: the first met a fault, the second had
\* its order accepted
C9_Witness ==
    /\ TickOver
    /\ tick_active = {"s1", "s2"}
    /\ DOMAIN tick_log = {"s1", "s2"}
    /\ tick_log["s1"]
    /\ last_task # NoTask
    /\ last_task.id = "s2"
    /\ last_task.result.order # NoOrder
    /\ last_task.result.order.result = "accepted"

StageFaults == {"candle_fetch", "set_leverage", "place_order"}

\* C10: when a tick is over and the strategy it processed last met a fault
\* in the candle fetch, the signal generation, the validation or the order
\* execution, that strategy is registered with status ERROR.
C10_FaultSetsError ==
    (TickOver /\ last_task # NoTask /\ last_task.result.fault \in StageFaults)
        => /\ last_task.id \in DOMAIN strategies
           /\ strategies[last_task.id].status = "ERROR"

(***************************************************************************)
(* The order executor and the signal queue                                 *)
(***************************************************************************)
NetworkCalls == {"set_leverage", "place_order"}

CountOf(effects, name) == Cardinality({i \in DOMAIN effects : effects[i] = name})

\* C11: a TradingSignal leads to at most one place_order call, whether it is
\* being executed, waiting in the signal queue or taken from it, and it is put
\* on the queue only after every exchange call made for it
C11_SignalSubmittedOnce ==
    /\ \A i \in DOMAIN signal_queue : signal_queue[i].orders <= 1
    /\ (last_task # NoTask /\ last_task.result.signal # NoSignal) =>
          LET effects == last_task.result.effects
          IN /\ last_task.result.signal.orders <= 1
             /\ CountOf(effects, "place_order") = last_task.result.signal.orders
             /\ \A i, j \in DOMAIN effects :
                   (effects[i] = "queue_put" /\ effects[j] \in NetworkCalls) => j < i
    /\ last_processed # NoSignal =>
          /\ last_processed.signal.orders <= 1
          /\ CountOf(last_processed.effects, "place_order") = 0

\* a signal that was submitted and queued has been taken by _process_signals
C11_Witness ==
    /\ last_processed # NoSignal
    /\ last_processed.signal.orders = 1

\* C12: every execution attempt of an approved signal writes exactly one
\* Trade record, whatever the outcome of the attempt
C12_OneTradePerAttempt ==
    (last_task # NoTask /\ last_task.result.approved) =>
        CountOf(last_task.result.effects, "save_trade") = 1

(***************************************************************************)
(* Trade validation                                                        *)
(***************************************************************************)
\* C13: whenever the RiskManager has portfolio metrics, a validation reports
\* the exposure violation exactly when the current total exposure plus the
\* trade value exceeds max_total_exposure
C13_ExposureCeiling ==
    (last_validation # NoValidation /\ HasMetrics(portfolio_metrics)) =>
        (MsgExposure \in Range(last_validation.violations)
         <=> portfolio_metrics.total_exposure + last_validation.trade_value
                > global_limits.max_total_exposure)

\* the positions the RiskManager counts against max_positions
OpenPositions == DOMAIN position_risks

\* C14: once max_positions positions are open, no order that would open a
\* further position is submitted
C14_PositionCap ==
    (/\ last_task # NoTask
     /\ last_task.result.order # NoOrder
     /\ last_task.result.order.symbol \notin OpenPositions)
        => Cardinality(OpenPositions) < global_limits.max_positions

\* C15: every validate_trade call returns a pair (accepted, violations) in
\* which accepted is true exactly when violations is empty; a check that
\* raises (zero equity, a daily pnl of None) contributes a violation
C15_ValidationTotal ==
    last_validation # NoValidation =>
        /\ last_validation.accepted \in BOOLEAN
        /\ last_validation.accepted <=> last_validation.violations = <<>>
        /\ (HasMetrics(portfolio_metrics) /\ portfolio_metrics.total_equity = 0)
              => MsgErrPortfolio \in Range(last_validation.violations)

\* a validation with zero equity, where the portfolio check divides by zero,
\* has returned a rejection
C15_Witness ==
    /\ last_validation # NoValidation
    /\ HasMetrics(portfolio_metrics)
    /\ portfolio_metrics.total_equity = 0
    /\ ~last_validation.accepted

\* C16: while the emergency stop is active a validation short-circuits on
\* it, so the stop is the only violation the result carries
C16_StopShortCircuits ==
    (last_validation # NoValidation /\ emergency_stop_triggered) =>
        last_validation.violations = <<MsgEmergencyStop>>

(***************************************************************************)
(* Position reconciliation                                                 *)
(***************************************************************************)
\* a position moved by more than the noise threshold of one of its fields
Differs(old_pos, new_pos) ==
    \/ Abs(new_pos.size - old_pos.size) > thresholds.size
    \/ Abs(new_pos.unrealized_pnl - old_pos.unrealized_pnl) > thresholds.unrealized_pnl
    \/ Abs(new_pos.mark_price - old_pos.mark_price) > thresholds.mark_price
    \/ Abs(new_pos.percentage - old_pos.percentage) > thresholds.percentage

SymbolsOf(list) == {list[i].symbol : i \in DOMAIN list}

\* the list is a set of positions keyed by symbol
Keyed(list) == \A i, j \in DOMAIN list : list[i].symbol = list[j].symbol => i = j

PositionOf(list, sym) == list[CHOOSE i \in DOMAIN list : list[i].symbol = sym]

\* the change set the diff of a before-set and an after-set calls for
ExpectedChanges(before, after) ==
    {<<"NEW", sym>> : sym \in SymbolsOf(after) \ SymbolsOf(before)}
    \cup {<<"CLOSED", sym>> : sym \in SymbolsOf(before) \ SymbolsOf(after)}
    \cup {<<"UPDATED", sym>> :
            sym \in {x \in SymbolsOf(after) \cap SymbolsOf(before) :
                        Differs(PositionOf(before, x), PositionOf(after, x))}}

ChangesOf(c) == SelectSeq(last_cycle.changes, LAMBDA ch : ch.connection_id = c)

\* C17: for every connection of a reconciliation cycle whose cached and
\* fetched positions are sets keyed by symbol, the changes detected for it
\* are exactly one NEW per symbol only in the after-set, one CLOSED per symbol
\* only in the before-set and one UPDATED per symbol in both that moved by
\* more than a threshold, and nothing else
C17_DiffExact ==
    last_cycle # NoCycle =>
        \A c \in SyncConnections :
            LET before == Positions(last_cycle.before, c)
                after == Positions(last_cycle.new_positions, c)
                expected == ExpectedChanges(before, after)
            IN (Keyed(before) /\ Keyed(after))
                  => /\ {<<ch.type, ch.symbol>> : ch \in Range(ChangesOf(c))} = expected
                     /\ Len(ChangesOf(c)) = Cardinality(expected)

\* a cycle has detected an UPDATED and a CLOSED position in sets keyed by
\* symbol, and has left out a position that moved by less than the thresholds
C17_Witness ==
    /\ last_cycle # NoCycle
    /\ \A c \in DOMAIN last_cycle.new_positions :
         Keyed(Positions(last_cycle.before, c)) /\ Keyed(last_cycle.new_positions[c])
    /\ \A type \in {"UPDATED", "CLOSED"} :
         \E i \in DOMAIN last_cycle.changes : last_cycle.changes[i].type = type
    /\ \E c \in DOMAIN last_cycle.new_positions :
         \E sym \in SymbolsOf(last_cycle.new_positions[c])
                       \cap SymbolsOf(Positions(last_cycle.before, c)) :
            /\ PositionOf(last_cycle.new_positions[c], sym)
                  # PositionOf(last_cycle.before[c], sym)
            /\ \A ch \in Range(ChangesOf(c)) : ch.symbol # sym

\* C18: a reconciliation cycle that directly follows another, compares with
\* the cache the first stored and gets the same replies from the exchange for
\* every connection detects no change, writes and broadcasts nothing, and
\* leaves the cache as the first stored it
C18_Idempotent ==
    [][(/\ last_cycle # NoCycle
        /\ last_cycle' # NoCycle
        /\ last_cycle'.before = current_positions
        /\ last_cycle'.replies = last_cycle.replies)
          => /\ last_cycle'.changes = <<>>
             /\ last_cycle'.saved = <<>>
             /\ ~last_cycle'.broadcast
             /\ current_positions' = current_positions]_vars

Failed(c) == c \in DOMAIN last_cycle.replies /\ last_cycle.replies[c].kind # "ok"

Fetched(c) == c \in DOMAIN last_cycle.replies /\ last_cycle.replies[c].kind = "ok"

\* C19: in a cycle where the fetch fails for one connection and succeeds for
\* another, the cache of the one that succeeded holds its fetched positions
\* and the cache of the one that failed is what it was before the cycle
C19_FailureKeepsCache ==
    (/\ last_cycle # NoCycle
     /\ \E a, b \in DOMAIN last_cycle.replies : Failed(a) /\ Fetched(b))
        => \A c \in DOMAIN last_cycle.replies :
              IF Failed(c)
              THEN current_positions[c] = Positions(last_cycle.before, c)
              ELSE current_positions[c] = fetch_positions(last_cycle.replies[c])

\* C20: a CLOSED change is detected, and a CLOSED row saved, only for a
\* symbol missing from the list a successful fetch of the connection returned
\* in the same cycle
C20_ClosedOnlyOnFetch ==
    last_cycle # NoCycle =>
        /\ \A i \in DOMAIN last_cycle.changes :
             last_cycle.changes[i].type = "CLOSED"
                => LET c == last_cycle.changes[i].connection_id
                   IN /\ Fetched(c)
                      /\ last_cycle.changes[i].symbol
                            \notin SymbolsOf(fetch_positions(last_cycle.replies[c]))
        /\ \A i \in DOMAIN last_cycle.saved :
             last_cycle.saved[i].status = "CLOSED"
                => Fetched(last_cycle.saved[i].connection_id)

\* C26: the positions cached for a connection hold every symbol at most once
C26_OnePerSymbol ==
    \A c \in DOMAIN current_positions : Keyed(current_positions[c])

(***************************************************************************)
(* Cycles, readers and callers of the PositionSyncService                  *)
(***************************************************************************)
\* the cycles that have fetched and are suspended before the cache is replaced
Suspended == {task \in Range(sync_tasks) : task.stage \in {"changes", "summary"}}

\* C21: a step of a reconciliation cycle either leaves the cache, which the
\* readers return, as it was before the cycle touched it, or is the last
\* step of the cycle and replaces the whole cache by the positions the cycle
\* reconciled: no state in between holds part of each
C21_AtomicReplace ==
    [][(last_cycle' # NoCycle \/ sync_tasks' # sync_tasks)
          => \/ current_positions' = current_positions
             \/ /\ last_cycle' # NoCycle
                /\ current_positions' = last_cycle'.new_positions]_vars

\* a cycle is suspended in its broadcast, where a reader can run: it has
\* fetched other positions than the cached ones, and the cache still holds
\* all the positions it held when the cycle began
C21_Witness ==
    \E task \in Suspended :
        /\ task.cycle.new_positions # task.cycle.before
        /\ current_positions = task.cycle.before
        /\ \E c \in DOMAIN current_positions : current_positions[c] # <<>>

\* C22: when force_sync returns, whether or not the service is running, the
\* cache of every connection its cycle fetched with success holds the
\* positions fetched in the call
C22_ForceSyncReconciles ==
    (last_cycle # NoCycle /\ last_cycle.caller = "force_sync")
        => \A c \in DOMAIN last_cycle.replies :
              Fetched(c) => /\ c \in DOMAIN current_positions
                            /\ current_positions[c] = fetch_positions(last_cycle.replies[c])

\* force_sync has returned while the service was not running, after its cycle
\* was suspended in the broadcast of the changes it detected, and the cache
\* holds the positions it fetched
C22_Witness ==
    /\ last_cycle # NoCycle
    /\ last_cycle.caller = "force_sync"
    /\ ~sync_is_running
    /\ last_cycle.summary # NoSummary
    /\ \E c \in DOMAIN last_cycle.replies :
         Fetched(c) /\ current_positions[c] # <<>>
                    /\ current_positions[c] # Positions(last_cycle.before, c)

\* the positions of the symbol cached for the connection of the call
CachedFor(call) ==
    SelectSeq(Positions(current_positions, call.connection_id),
              LAMBDA pos : pos.symbol = call.symbol)

C27_SummaryOfReconciled ==
    last_cycle # NoCycle
        => /\ last_cycle.summary # NoSummary
           /\ last_cycle.summary = get_position_summary(current_positions)

\* C28: a cycle that has ended has saved one row per change under the key
\* of its connection and symbol, OPEN with the new size and pnl for NEW and
\* UPDATED, CLOSED with size 0 and the cached unrealized pnl as realized pnl
\* for CLOSED; and every key of the positions table is then OPEN exactly when
\* the cache holds a position of that connection and symbol
C28_PersistedMatchesCache ==
    last_cycle # NoCycle =>
        /\ Len(last_cycle.saved) = Len(last_cycle.changes)
        /\ \A i \in DOMAIN last_cycle.changes :
             LET change == last_cycle.changes[i]
                 row == last_cycle.saved[i]
             IN /\ row.id = <<change.connection_id, change.symbol>>
                /\ row.id \in DOMAIN positions_db
                /\ IF change.type = "CLOSED"
                   THEN /\ row.status = "CLOSED"
                        /\ row.size = 0
                        /\ row.realized_pnl = change.position.unrealized_pnl
                   ELSE /\ row.status = "OPEN"
                        /\ row.size = change.position.size
                        /\ row.unrealized_pnl = change.position.unrealized_pnl
        /\ \A id \in DOMAIN positions_db :
             positions_db[id] = "OPEN"
                <=> id[2] \in SymbolsOf(Positions(current_positions, id[1]))

(***************************************************************************)
(* Shutdown of the engine                                                  *)
(***************************************************************************)
\* C25: while the engine is stopped, none of its periodic tasks is alive or
\* inside a cycle, and no task submits an order
C25_StopAwaitsTasks ==
    ~is_running
        => /\ exec_pc = "stopped"
           /\ tick_tasks = <<>>
           /\ ~signal_task
           /\ last_task = NoTask

(***************************************************************************)
(* The metrics a tick is validated against                                 *)
(***************************************************************************)
\* C30: a trade validated while a tick is running is validated against the
\* PortfolioMetrics that were current when the tick created its tasks
C30_TickSnapshot ==
    (exec_pc = "gather" /\ last_validation # NoValidation)
        => portfolio_metrics = tick_metrics

(***************************************************************************)
(* Faults inside the loops                                                 *)
(***************************************************************************)
\* C29: after an iteration of a loop whose body raised, the loop begins
\* another iteration unless its running flag is cleared
C29_FaultKeepsLoop ==
    \A l \in Loops : \A n \in 1..(MaxIterations - 1) :
        (loop_fault[l] /\ loop_iterations[l] = n)
            ~> (~LoopFlag(l) \/ loop_iterations[l] > n)

\* the body of the first iteration of every loop has raised, and the flag
\* of every loop is set
C29_Witness ==
    \A l \in Loops :
        /\ LoopFlag(l)
        /\ loop_iterations[l] = 1
        /\ loop_fault[l]

(***************************************************************************)
(* The PositionSyncService and the RiskManager side by side: one account   *)
(* reconciled by force_sync, no subscriber, and the risk-monitoring loop.  *)
(* No code of the repository calls update_position_risk or                 *)
(* remove_position_risk.                                                   *)
(***************************************************************************)
FollowNext ==
    \/ SyncAddConnection({"c1"})
    \/ SyncRemoveConnection({"c1"})
    \/ SyncAllPositions({"force_sync"}, SyncReplies, {FALSE})
    \/ StartMonitoring
    \/ StopMonitoring
    \/ MonitoringCycle({0, 10000}, {[is_none |-> FALSE, value |-> 0]}, {"losses"})
    \/ ValidateTrade({"s1"}, {"BTCUSDT"}, {"BUY"}, Quantities, Prices, {1})

SpecFollow == Init /\ [][FollowNext]_vars

(***************************************************************************)
(* Claims about the RiskManager's metrics (under SpecFollow and SpecBands) *)
(***************************************************************************)
FollowCycle ==
    MonitoringCycle({0, 10000}, {[is_none |-> FALSE, value |-> 0]}, {"losses"})

\* the positions the Synchronizer holds in its cache, over all connections
CachedPositions(cache) ==
    Flatten([i \in DOMAIN SyncOrder |-> Positions(cache, SyncOrder[i])])

\* C31: a risk-monitoring cycle that runs after the reconciliation cycles
\* leaves metrics whose open-position count is the number of positions in
\* the Synchronizer's cache and whose total exposure is positive exactly
\* when the cache holds a position.
C31_MetricsFollowCache ==
    [][~(/\ FollowCycle
         /\ HasMetrics(portfolio_metrics')
         /\ ~(/\ portfolio_metrics'.active_positions
                     = Len(CachedPositions(current_positions))
              /\ (portfolio_metrics'.total_exposure > 0)
                     <=> (CachedPositions(current_positions) # <<>>)))]_vars

(***************************************************************************)
(* The RiskManager with equities, exposures and positions around the 80%   *)
(* and 95% marks of its limits                                             *)
(***************************************************************************)
\* equities whose decline from 10000 is 0%, 13%, 14.5% and 20%
BandEquities == {10000, 8700, 8550, 8000}
\* positions worth 800, 900 and 1000
BandPositions == {<<8, 100, 100, 0>>, <<9, 100, 100, 0>>, <<10, 100, 100, 0>>}

BandsNext ==
    \/ SetGlobalLimit({<<"max_total_exposure", 1000>>})
    \/ StartMonitoring
    \/ MonitoringCycle(BandEquities, {[is_none |-> FALSE, value |-> 0]}, {"losses"})
    \/ UpdatePositionRisk({"BTCUSDT"}, BandPositions)
    \/ RemovePositionRisk({"BTCUSDT"})
    \/ ResetEmergencyStop

SpecBands == Init /\ [][BandsNext]_vars

BandsCycle ==
    MonitoringCycle(BandEquities, {[is_none |-> FALSE, value |-> 0]}, {"losses"})

\* the levels of the alerts of a type and symbol, in the order of the list
LevelsOf(alerts, type, symbol) ==
    LET of_type == SelectSeq(alerts, LAMBDA a : a.alert_type = type /\ a.symbol = symbol)
    IN [i \in DOMAIN of_type |-> of_type[i].level]

\* the alert due for a metric num/den against a limit of limit_pct percent:
\* none up to 80% of the limit, MEDIUM (the level under HIGH) up to 95%, HIGH
\* above
DueLevels(num, den, limit_pct) ==
    IF num * 10000 > limit_pct * 95 * den THEN <<"HIGH">>
    ELSE IF num * 10000 > limit_pct * 80 * den THEN <<"MEDIUM">>
    ELSE <<>>

\* C32: a monitoring cycle that begins with no alert on record ends with,
\* for the drawdown, the total exposure and the risk of each position, no
\* alert of that type when the metric is at most 80% of its limit, one alert
\* of level MEDIUM when it is above 80% and at most 95%, and one of level
\* HIGH when it is above 95%.
C32_AlertBands ==
    [][~(/\ BandsCycle
         /\ risk_alerts = <<>>
         /\ HasMetrics(portfolio_metrics')
         /\ portfolio_metrics'.total_equity > 0
         /\ ~(/\ LevelsOf(risk_alerts', "DRAWDOWN", "")
                   = DueLevels(portfolio_metrics'.dd_num, portfolio_metrics'.dd_den,
                               global_limits.max_portfolio_drawdown)
              /\ LevelsOf(risk_alerts', "EXPOSURE", "")
                   = DueLevels(portfolio_metrics'.total_exposure,
                               global_limits.max_total_exposure, 100)
              /\ \A symbol \in DOMAIN position_risks :
                   LevelsOf(risk_alerts', "POSITION_SIZE", symbol)
                     = DueLevels(Abs(position_risks[symbol].size
                                       * position_risks[symbol].current_price),
                                 portfolio_metrics'.total_equity,
                                 global_limits.max_single_position)))]_vars

\* a cycle has raised the two warnings of a position worth 900 against an
\* exposure limit of 1000 and an equity of 10000, the drawdown being 0
C32_Witness ==
    /\ risk_alerts = <<Alert("EXPOSURE", "MEDIUM", ""),
                       Alert("POSITION_SIZE", "MEDIUM", "BTCUSDT")>>
    /\ HasMetrics(portfolio_metrics)
    /\ portfolio_metrics.total_exposure = 900
    /\ portfolio_metrics.total_equity = 10000
    /\ portfolio_metrics.dd_num = 0
    /\ global_limits.max_total_exposure = 1000

\* C33: after every monitoring cycle the alerts on record for the total
\* exposure and for each position's risk (none of them is ever marked
\* resolved) are those of the conditions that hold: one alert while the
\* metric is over its threshold, however many cycles have found it there,
\* and none once a cycle has found it back under the threshold.
C33_AlertFollowsCondition ==
    [][~(/\ BandsCycle
         /\ HasMetrics(portfolio_metrics')
         /\ portfolio_metrics'.total_equity > 0
         /\ ~(/\ Len(LevelsOf(risk_alerts', "EXPOSURE", ""))
                   = Len(DueLevels(portfolio_metrics'.total_exposure,
                                   global_limits.max_total_exposure, 100))
              /\ \A symbol \in Symbols :
                   Len(LevelsOf(risk_alerts', "POSITION_SIZE", symbol))
                     = IF symbol \in DOMAIN position_risks
                       THEN Len(DueLevels(Abs(position_risks[symbol].size
                                                * position_risks[symbol].current_price),
                                          portfolio_metrics'.total_equity,
                                          global_limits.max_single_position))
                       ELSE 0))]_vars

\* C34: the drawdown a monitoring cycle computes is measured from the
\* highest equity of all earlier snapshots: it is at least the decline of
\* the new equity from the peak the previous cycle measured its own drawdown
\* from (dd_den, an equity reached at that cycle or before), so that an
\* equity declining in every cycle has a drawdown that accumulates.
C34_DrawdownFromPeak ==
    [][~(/\ BandsCycle
         /\ HasMetrics(portfolio_metrics)
         /\ portfolio_metrics.total_equity > 0
         /\ portfolio_metrics'.total_equity > 0
         /\ ~(portfolio_metrics'.dd_num * portfolio_metrics.dd_den
                >= (portfolio_metrics.dd_den - portfolio_metrics'.total_equity)
                     * portfolio_metrics'.dd_den))]_vars

(***************************************************************************)
(* Claims about the strategies a tick trades for (under SpecEngine and     *)
(* SpecLatch)                                                              *)
(***************************************************************************)
\* C35: when a task of a tick has called place_order for a strategy, that
\* strategy is in the registry with status ACTIVE at that moment, whatever
\* pause_strategy, remove_strategy, stop_engine or the emergency stop did
\* after the tick collected its ACTIVE strategies.
C35_OrderOnlyWhileActive ==
    (last_task # NoTask /\ last_task.result.order # NoOrder)
        => /\ last_task.id \in DOMAIN strategies
           /\ strategies[last_task.id].status = "ACTIVE"

(***************************************************************************)
(* The engine's own emergency stop: one strategy traded by the execution   *)
(* loop, the engine's monitoring loop, and the operations that restart     *)
(* trading; the RiskManager's loop sets its own stop and the API resets it *)
(***************************************************************************)
LatchNext ==
    \/ StartMonitoring
    \/ MonitoringCycle({8000, 10000}, {[is_none |-> FALSE, value |-> 0]}, {"losses"})
    \/ ResetEmergencyStop
    \/ AddStrategy({"s1"}, {[connection_id |-> "c1", symbol |-> "BTCUSDT", leverage |-> 5]})
    \/ ActivateStrategy({"s1"})
    \/ AddConnection({"c1"}, {"ok"})
    \/ StartEngine
    \/ StopEngine
    \/ ExecuteStrategies
    \/ ExecuteSingleStrategy({"flat", "BUY"}, {"ok"}, {"ok"})
    \/ GatherDone
    \/ CheckGlobalRisk(WalletPnls)
    \/ ProcessSignals
    \/ ProcessSignalsExit

SpecLatch == Init /\ [][LatchNext]_vars

\* C36: once _check_global_risk has set the engine's own flag
\* global_risk_limits.emergency_stop_triggered, no step clears it; the step
\* that sets it leaves every registered strategy STOPPED; and no task that
\* runs while it is set calls place_order.
C36_EngineStopLatches ==
    /\ [][/\ global_risk_limits.emergency_stop_triggered
               => global_risk_limits'.emergency_stop_triggered
          /\ (/\ ~global_risk_limits.emergency_stop_triggered
              /\ global_risk_limits'.emergency_stop_triggered)
               => \A id \in DOMAIN strategies' : strategies'[id].status = "STOPPED"]_vars
    /\ []((global_risk_limits.emergency_stop_triggered /\ last_task # NoTask)
             => last_task.result.order = NoOrder)

\* after the engine's emergency stop the strategy was activated again and a
\* tick ran its task: the task generated a signal, the RiskManager's own
\* stop being clear, and the signal was refused
C36_Witness ==
    /\ global_risk_limits.emergency_stop_triggered
    /\ ~emergency_stop_triggered
    /\ is_running
    /\ last_task # NoTask
    /\ last_task.result.signal # NoSignal
    /\ ~last_task.result.approved
    /\ last_task.id \in DOMAIN strategies
    /\ strategies[last_task.id].status = "ACTIVE"

\* C37: a remove_strategy call that succeeded leaves the id out of the
\* registry, and place_order is called for an id only while the registry
\* holds it: a removed strategy is traded for again only after add_strategy
\* has registered the id again, also across stop_engine and start_engine.
C37_RemovedNeverTrades ==
    /\ (last_call.op = "remove_strategy" /\ last_call.ok)
          => last_call.id \notin DOMAIN strategies
    /\ (last_task # NoTask /\ last_task.result.order # NoOrder)
          => last_task.id \in DOMAIN strategies

(***************************************************************************)
(* Claims about overlapping reconciliations (under SpecOverlap)            *)
(***************************************************************************)
\* C38: whatever start() and stop() calls are made, at most one task
\* running _sync_loop is alive.
C38_OneSyncLoop == sync_loops <= 1

\* the changes a suspended coroutine's cycle has detected
ReportedBy(task) ==
    IF task.stage = "sleep" THEN {} ELSE Range(task.cycle.changes)

====
